---- MODULE Spec2Model ----
(***************************************************************************)
(* Vendyz backend: token selection for a purchased tier.                   *)
(*                                                                         *)
(* selectTokensForTier (src/src/index.js) is an async function; the model  *)
(* follows one invocation through its await points.  USD arithmetic in the *)
(* code is IEEE double arithmetic; here it is exact rational arithmetic    *)
(* (a pair n/d kept in lowest terms), so Math.floor is the exact floor.    *)
(* Prices are whole USD and decimals are at most 6, so that every native   *)
(* amount stays inside TLC's integers.  getTokenPrice never throws (it     *)
(* returns price 0), so the catch around a loop iteration is reached only  *)
(* by BigInt() of a non-finite quotient, which these prices never produce. *)
(***************************************************************************)
EXTENDS Integers, Sequences, FiniteSets, TLC

(* ------------------------------ bounds --------------------------------- *)

\* Largest USD price a lookup returns (0 = unpriced).
MaxPrice == 2

\* The large treasury balance, in native units (no computed amount reaches it).
MaxBalance == 2000000000

\* The small treasury balance, in native units (computed amounts exceed it).
MinBalance == 1

(* --------------------------- program constants ------------------------- *)

\* estimatedValue is in USDC base units: Number(estimatedValue) / 1e6.
USDC_SCALE == 1000000

\* sponsorValue = targetValueInUSD * 0.5, otherValue = targetValueInUSD * 0.5.
SPLIT_DEN == 2

\* Math.min(3, nonSponsorTokens.length)
MAX_OTHER_TOKENS == 3

\* getAvailableTokensInTreasury: the watch list, in the code's order
\* (its first four entries).
tokensToCheck == <<"USDC", "DEGEN", "WETH", "DAI">>

\* process.env.USDC_ADDRESS
USDC_ADDRESS == "USDC"

\* decimals() of each watch-list token as the chain reports it (18-decimal
\* tokens are given fewer decimals to stay inside TLC's integers).
TokenDecimals == [a \in {"USDC", "DEGEN", "WETH", "DAI"} |->
                    CASE a = "USDC" -> 6
                      [] a = "DEGEN" -> 2
                      [] a = "WETH" -> 0
                      [] a = "DAI" -> 1]

Addresses == {tokensToCheck[i] : i \in 1..Len(tokensToCheck)}

\* String.prototype.toLowerCase on an address (watch-list addresses are
\* written in mixed case, here in upper case).
toLowerCase(a) ==
    CASE a = "USDC" -> "usdc"
      [] a = "DEGEN" -> "degen"
      [] a = "WETH" -> "weth"
      [] a = "DAI" -> "dai"
      [] OTHER -> a

\* Addresses getActiveSponsors can return: the watch-list tokens as the watch
\* list spells them, and DEGEN also in another letter case.
SponsorAddresses == Addresses \cup {toLowerCase("DEGEN")}

\* Outcome of one getTokenBalance read: -1 is a read that threw.
ReadOutcomes == {-1, 0, MinBalance, MaxBalance}

\* log.args.estimatedValue of a WalletReady event: $1 and $100.
EstimatedValues == {1 * USDC_SCALE, 100 * USDC_SCALE}

\* priceData.price returned by getTokenPrice: 0 (no source priced it) or > 0.
Prices == 0..MaxPrice

(* ------------------------------ arithmetic ----------------------------- *)

Min(a, b) == IF a < b THEN a ELSE b

RECURSIVE GCD(_, _)
GCD(a, b) == IF b = 0 THEN a ELSE GCD(b, a % b)

RECURSIVE Pow10(_)
Pow10(k) == IF k = 0 THEN 1 ELSE 10 * Pow10(k - 1)

\* The rational n/d in lowest terms (d > 0).
Rat(n, d) == LET g == GCD(n, d) IN
             IF g = 0 THEN [n |-> 0, d |-> 1] ELSE [n |-> n \div g, d |-> d \div g]

\* JavaScript arithmetic on numbers: NaN is contagious.  Values are kept exact
\* (the rounding of doubles is left out).
NumDiv(x, y) ==
    IF x.nan \/ y.nan THEN [nan |-> TRUE, q |-> Rat(0, 1)]
    ELSE [nan |-> FALSE, q |-> Rat(x.q.n * y.q.d, x.q.d * y.q.n)]

NumTimes(x, k) ==
    IF x.nan THEN [nan |-> TRUE, q |-> Rat(0, 1)]
    ELSE [nan |-> FALSE, q |-> Rat(x.q.n * k, x.q.d)]

NumPlus(x, y) ==
    IF x.nan \/ y.nan THEN [nan |-> TRUE, q |-> Rat(0, 1)]
    ELSE [nan |-> FALSE, q |-> Rat(x.q.n * y.q.d + y.q.n * x.q.d, x.q.d * y.q.d)]

\* q / k for a positive integer k.
RatDivInt(q, k) == Rat(q.n, q.d * k)

\* Math.floor(q * 10^decimals / price) for price > 0.
RatFloorScaled(q, price, decimals) == (q.n * Pow10(decimals)) \div (q.d * price)

(* ------------------------------- state --------------------------------- *)

VARIABLES
    pc,              \* await point of the running selectTokensForTier
    estimatedValue,  \* argument of selectTokensForTier (USDC base units)
    availableTokens, \* result of getAvailableTokensInTreasury
    sponsorTokens,   \* result of getActiveSponsors ([] when the read failed)
    i,               \* position of the sponsor loop
    selectedOther,   \* shuffled.slice(0, numOtherTokens)
    j,               \* position of the other loop
    selectedTokens,  \* the array selectedTokens
    selectedAmounts, \* the array selectedAmounts
    result,          \* what selectTokensForTier gave its caller
    priceSeen,       \* history: address -> price its getTokenPrice call returned
    path,            \* history: "normal", "fallback" (first token) or "catch"
    sponsorFetch,    \* history: "none", "ok" or "failed" (getActiveSponsors threw)
    now,               \* Date.now(), in milliseconds
    priceCache,        \* the Map priceCache: lowercase address -> entry
    lastCoinGeckoCall, \* time of the last call let through to CoinGecko
    lastMoralisCall,   \* time of the last call let through to Moralis
    lookup,            \* per caller: the price lookup it is running
    started,           \* number of lookups started so far
    advances,          \* number of clock steps taken so far
    unreachable,       \* environment: every request to a price source fails
    cacheStats,        \* what the last getCacheStats() returned
    wallet,            \* the calculateWalletValue call of the script flow
    refresh,           \* per flow: where its run of updatePriceCache stands
    snapshot,          \* priceCache of the snapshot module: the published object
    handler,           \* per WalletReady event: where handleWalletReady stands
    wallets,           \* the rows of the wallets table
    cleanupInterval,   \* the auto-cleanup interval timer is set
    cleanupDue,        \* a run of cleanupOldWallets has been started
    updateTimer,       \* the interval handle kept by the snapshot module, 0 for null
    intervals,         \* the refresh interval timers that are active
    initialUpdates,    \* initial refreshes of startPriceCache still in flight
    timerCalls         \* what has been called and fired so far

selectionVars == <<pc, estimatedValue, availableTokens, sponsorTokens, i, selectedOther,
                   j, selectedTokens, selectedAmounts, result, priceSeen, path,
                   sponsorFetch>>

oracleVars == <<now, priceCache, lastCoinGeckoCall, lastMoralisCall, lookup, started,
                advances>>

useVars == <<unreachable, cacheStats, wallet>>

refreshVars == <<refresh, snapshot>>

serviceVars == <<handler, wallets, cleanupInterval, cleanupDue>>

timerVars == <<updateTimer, intervals, initialUpdates, timerCalls>>

\* What the actions of one component leave alone.
outsideSelection == <<oracleVars, useVars, refreshVars, serviceVars, timerVars>>

outsideOracle == <<selectionVars, useVars, refreshVars, serviceVars, timerVars>>

vars == <<selectionVars, oracleVars, useVars, refreshVars, serviceVars, timerVars>>

(* ------------------------- price oracle state -------------------------- *)

\* const CACHE_TTL = 5 * 60 * 1000, in milliseconds.
CACHE_TTL == 300000

\* const COINGECKO_RATE_LIMIT = 1200 and MORALIS_RATE_LIMIT = 500 (ms).
COINGECKO_RATE_LIMIT == 1200

MORALIS_RATE_LIMIT == 500

\* UPDATE_INTERVAL of the snapshot module: 5 minutes, in ms.
UPDATE_INTERVAL == 300000

\* cleanupOldWallets: rows older than 5 minutes are deleted.
WALLET_TTL_MINUTES == 5

\* The age, in minutes, from which on all rows are alike to a cleanup run.
OldAge == WALLET_TTL_MINUTES + 1

\* Bound: price lookups started in one behaviour.
MaxLookups == 3

\* Bound: clock steps in one behaviour.
MaxAdvances == 2

\* The base units on each line passed to calculateWalletValue.
LineUnits == 250

\* Flows that can be inside a lookup at the same time: handleWalletReady runs
\* once per log without waiting for the previous one.
Callers == {1, 2}

\* Addresses handed to the oracle: one as the refresh passes it (lowercase),
\* one as the selection passes it (checksum case).
OracleAddresses == {toLowerCase("DEGEN"), "WETH"}

\* Arguments of getTokenPrices: arrays of two addresses, two different tokens
\* or the same token twice.
Batches == {<<a, "WETH">> : a \in OracleAddresses}

\* USD prices a source can answer with: no price, or a positive one.
Quotes == {0, MaxPrice}

\* Amount by which the clock moves between two steps of the program: the TTL,
\* so that an entry is seen exactly at its expiry.
TimeStep == CACHE_TTL

\* Date.now() when the service starts: far above both rate-limit intervals.
StartTime == CACHE_TTL

\* The empty object {} / the empty Map.
EmptyMap == [a \in {} |-> 0]

\* A caller that is not inside a lookup.  The fields after wake are history:
\* when the running lookup checked the cache, the calls it issued and what
\* they gave.
IdleLookup ==
    [pc |-> "idle", op |-> "none", tokenAddresses |-> <<>>,
     uncachedAddresses |-> <<>>, results |-> EmptyMap, k |-> 0, wake |-> 0,
     checkedAt |-> 0, cgCalls |-> <<>>, cgPriced |-> {}, moralisCalls |-> <<>>, moralisFailed |-> {}]

\* getCacheStats() has not been called.
NoCacheStats == [total |-> 0, valid |-> 0, expired |-> 0, ttl |-> 0]

\* A JavaScript number: NaN, or a value kept as an exact fraction.
NaN == [nan |-> TRUE, q |-> [n |-> 0, d |-> 1]]

Number(q) == [nan |-> FALSE, q |-> q]

\* calculateWalletValue is not running and has returned nothing.
NoWalletValue ==
    [pc |-> "idle", tokens |-> <<>>, totalValue |-> Number([n |-> 0, d |-> 1]),
     tokenValues |-> <<>>]

\* The variable priceCache of the snapshot module before the first refresh.
EmptySnapshot ==
    [tokens |-> <<>>, lastUpdate |-> 0, nextUpdate |-> 0, tokenCount |-> 0, cycle |-> 0]

\* updatePriceCache is not running; outcome tells how its last run ended.
IdleRefresh ==
    [pc |-> "idle", outcome |-> "none", cycle |-> 0, tokensData |-> <<>>,
     ethBalance |-> 0, prices |-> EmptyMap]

\* Where handleWalletReady stands for an event before it is delivered.
NoHandler ==
    [pc |-> "pending", steps |-> <<>>, isAuthorized |-> "unread", transaction |-> "none"]

\* Nothing has been called on the snapshot module's timer.
NoTimerCalls == [starts |-> 0, stopped |-> FALSE, runs |-> 0, runsAfterStop |-> 0]

OracleInit ==
    /\ now = StartTime
    /\ priceCache = EmptyMap
    /\ lastCoinGeckoCall = 0
    /\ lastMoralisCall = 0
    /\ lookup = [p \in Callers |-> IdleLookup]
    /\ started = 0
    /\ advances = 0
    /\ unreachable = FALSE
    /\ cacheStats = NoCacheStats
    /\ wallet = NoWalletValue
    /\ refresh = [f \in Callers |-> IdleRefresh]
    /\ snapshot = EmptySnapshot
    /\ handler = [e \in {1, 2} |-> NoHandler]
    /\ wallets = {}
    /\ cleanupInterval = FALSE
    /\ cleanupDue = FALSE
    /\ updateTimer = 0
    /\ intervals = {}
    /\ initialUpdates = {}
    /\ timerCalls = NoTimerCalls

NoResult == [kind |-> "none", tokens |-> <<>>, amounts |-> <<>>]

Init ==
    /\ pc = "idle"
    /\ estimatedValue = 0
    /\ availableTokens = <<>>
    /\ sponsorTokens = {}
    /\ i = 1
    /\ selectedOther = <<>>
    /\ j = 1
    /\ selectedTokens = <<>>
    /\ selectedAmounts = <<>>
    /\ result = NoResult
    /\ priceSeen = [a \in {} |-> 0]
    /\ path = "normal"
    /\ sponsorFetch = "none"
    /\ OracleInit


(* ------------------------- selection helpers --------------------------- *)

\* Array.prototype.includes on the sponsor list: strict string equality.
includes(list, address) == address \in list

\* availableTokens.filter((token) => sponsorTokens.includes(token.address))
sponsorTokensInTreasury(available, sponsors) ==
    SelectSeq(available, LAMBDA t : includes(sponsors, t.address))

\* Mutant of nonSponsorTokens: the filter keeps every token.
nonSponsorTokensUnfiltered(available, sponsors) == available

\* availableTokens.filter((token) => !sponsorTokens.includes(token.address))
nonSponsorTokens(available, sponsors) ==
    SelectSeq(available, LAMBDA t : ~includes(sponsors, t.address))

\* Number(estimatedValue) / 1e6
targetValueInUSD(est) == Rat(est, USDC_SCALE)

\* targetValueInUSD * 0.5
sponsorValue(est) == RatDivInt(targetValueInUSD(est), SPLIT_DEN)

\* targetValueInUSD * 0.5
otherValue(est) == RatDivInt(targetValueInUSD(est), SPLIT_DEN)

\* sponsorValue / sponsorTokensInTreasury.length
valuePerSponsor(est, inTreasury) == RatDivInt(sponsorValue(est), Len(inTreasury))

\* Math.min(3, nonSponsorTokens.length)
numOtherTokens(others) == Min(MAX_OTHER_TOKENS, Len(others))

\* otherValue / numOtherTokens
valuePerToken(est, n) == RatDivInt(otherValue(est), n)

\* Math.floor((value / tokenPrice) * 10 ** token.decimals)
tokenAmount(value, tokenPrice, decimals) == RatFloorScaled(value, tokenPrice, decimals)

\* Mutant of lineAmount: the balance check is lost, the computed amount is pushed.
lineAmountNoClamp(amount, balance) == amount

\* if (BigInt(tokenAmount) > token.balance) push(token.balance) else push(tokenAmount)
lineAmount(amount, balance) == IF amount > balance THEN balance ELSE amount

\* Mutant of push: arr.concat(x) with its result discarded leaves arr as it was.
pushDiscarded(arr, x) == arr

\* selectedTokens.push(x) / selectedAmounts.push(x)
push(arr, x) == Append(arr, x)

\* Mutant of processToken: an unpriced token is not skipped but given its
\* whole balance.
processTokenNoSkip(tokens, amounts, token, tokenPrice, value) ==
    IF tokenPrice = 0
    THEN [tokens |-> Append(tokens, token.address),
          amounts |-> Append(amounts, token.balance)]
    ELSE [tokens |-> Append(tokens, token.address),
          amounts |-> Append(amounts,
                             IF (value.n * Pow10(token.decimals)) \div (value.d * tokenPrice)
                                  > token.balance
                             THEN token.balance
                             ELSE (value.n * Pow10(token.decimals))
                                      \div (value.d * tokenPrice))]

\* The history of lookups after getTokenPrice(address) returned tokenPrice.
recordPrice(seen, address, tokenPrice) ==
    [a \in DOMAIN seen \cup {address} |-> IF a = address THEN tokenPrice ELSE seen[a]]

\* One iteration of a pass (the two loops have the same body): the arrays
\* after the token was processed with the price its lookup returned.
processToken(tokens, amounts, token, tokenPrice, value) ==
    IF tokenPrice = 0
    THEN [tokens |-> tokens, amounts |-> amounts]
    ELSE [tokens |-> push(tokens, token.address),
          amounts |-> push(amounts,
                           lineAmount(tokenAmount(value, tokenPrice, token.decimals),
                                      token.balance))]

\* Mutant of amountToUse: the requested amount, whatever the balance.
amountToUseRequested(requestedAmount, availableAmount) == requestedAmount

\* requestedAmount < availableAmount ? requestedAmount : availableAmount
amountToUse(requestedAmount, availableAmount) ==
    IF requestedAmount < availableAmount THEN requestedAmount ELSE availableAmount

\* catch (error): return { tokens: [USDC_ADDRESS], amounts: [estimatedValue] }
catchResult(est) ==
    [kind |-> "returned", tokens |-> <<USDC_ADDRESS>>, amounts |-> <<est>>]

\* Mutant of returnResult: the lines come back in an order that depends on
\* how many there are (as from an unordered container): reversed when even.
returnResultUnordered(tokens, amounts) ==
    LET n == Len(tokens)
        rev(q) == [k \in 1..n |-> q[n + 1 - k]]
    IN IF n % 2 = 0
       THEN [kind |-> "returned", tokens |-> rev(tokens), amounts |-> rev(amounts)]
       ELSE [kind |-> "returned", tokens |-> tokens, amounts |-> amounts]

\* return { tokens: selectedTokens, amounts: selectedAmounts }
returnResult(tokens, amounts) ==
    [kind |-> "returned", tokens |-> tokens, amounts |-> amounts]

\* The orders [...arr].sort(() => Math.random() - 0.5) can leave arr in.
Shuffles(arr) ==
    {[k \in 1..Len(arr) |-> arr[p[k]]] :
        p \in {q \in [1..Len(arr) -> 1..Len(arr)] :
                 \A a, b \in 1..Len(arr) : a # b => q[a] # q[b]}}

\* The token records the reads of the watch list produce, in watch-list order.
RECURSIVE tokensFromReads(_, _)
tokensFromReads(reads, k) ==
    IF k > Len(tokensToCheck) THEN <<>>
    ELSE LET a == tokensToCheck[k]
             rest == tokensFromReads(reads, k + 1)
         IN IF reads[a] > 0
            THEN <<[address |-> a, balance |-> reads[a],
                    decimals |-> TokenDecimals[a]]>> \o rest
            ELSE rest

(* ------------------------------ actions -------------------------------- *)

\* handleWalletReady calls selectTokensForTier(tier, estimatedValue).
SelectTokensForTier ==
    /\ pc = "idle"
    /\ UNCHANGED <<sponsorFetch, outsideSelection>>
    /\ \E est \in EstimatedValues : estimatedValue' = est
    /\ pc' = "treasury"
    /\ UNCHANGED <<availableTokens, sponsorTokens, i, selectedOther, j,
                   selectedTokens, selectedAmounts, result, priceSeen, path>>

\* await getAvailableTokensInTreasury(); an empty list throws, and the
\* function's catch turns the throw into the USDC-only result.
GetAvailableTokensInTreasury ==
    /\ pc = "treasury"
    /\ UNCHANGED <<sponsorFetch, outsideSelection>>
    /\ \E reads \in [Addresses -> ReadOutcomes] :
         LET found == tokensFromReads(reads, 1) IN
         /\ availableTokens' = found
         /\ IF Len(found) = 0
            THEN /\ result' = catchResult(estimatedValue)
                 /\ path' = "catch"
                 /\ pc' = "done"
            ELSE /\ pc' = "sponsors"
                 /\ UNCHANGED <<result, path>>
    /\ UNCHANGED <<estimatedValue, sponsorTokens, i, selectedOther, j,
                   selectedTokens, selectedAmounts, priceSeen>>

\* The code after the sponsor list is known: into the sponsor loop when a
\* sponsor token is in the treasury, otherwise on to the other pass.
AfterSponsors(sponsors) ==
    /\ sponsorTokens' = sponsors
    /\ pc' = IF Len(sponsorTokensInTreasury(availableTokens, sponsors)) > 0
             THEN "sponsorPass" ELSE "otherInit"
    /\ UNCHANGED <<estimatedValue, availableTokens, i, selectedOther, j,
                   selectedTokens, selectedAmounts, result, priceSeen, path>>
    /\ UNCHANGED outsideSelection

\* await readContract(getActiveSponsors) succeeded.
GetActiveSponsors ==
    /\ pc = "sponsors"
    /\ \E sponsors \in SUBSET SponsorAddresses : AfterSponsors(sponsors)
    /\ sponsorFetch' = "ok"

\* Mutant of GetActiveSponsorsFails: without the inner try/catch the throw
\* reaches the function's catch, which returns the USDC-only result.
GetActiveSponsorsFailsPropagates ==
    /\ pc = "sponsors"
    /\ sponsorFetch' = "failed"
    /\ result' = catchResult(estimatedValue)
    /\ path' = "catch"
    /\ pc' = "done"
    /\ UNCHANGED <<estimatedValue, availableTokens, sponsorTokens, i, selectedOther, j,
                   selectedTokens, selectedAmounts, priceSeen>>
    /\ UNCHANGED outsideSelection

\* await readContract(getActiveSponsors) threw: sponsorTokens = [].
GetActiveSponsorsFails ==
    /\ pc = "sponsors"
    /\ AfterSponsors({})
    /\ sponsorFetch' = "failed"

\* One iteration of the sponsor loop: await getTokenPrice(token.address).
SponsorToken ==
    /\ pc = "sponsorPass"
    /\ UNCHANGED <<sponsorFetch, outsideSelection>>
    /\ LET inTreasury == sponsorTokensInTreasury(availableTokens, sponsorTokens)
           token == inTreasury[i]
       IN \E tokenPrice \in Prices :
            LET after == processToken(selectedTokens, selectedAmounts, token, tokenPrice,
                                      valuePerSponsor(estimatedValue, inTreasury))
            IN /\ selectedTokens' = after.tokens
               /\ selectedAmounts' = after.amounts
               /\ priceSeen' = recordPrice(priceSeen, token.address, tokenPrice)
               /\ i' = i + 1
               /\ pc' = IF i = Len(inTreasury) THEN "otherInit" ELSE "sponsorPass"
    /\ UNCHANGED <<estimatedValue, availableTokens, sponsorTokens, selectedOther, j,
                   result, path>>

\* numOtherTokens, the shuffle and the slice.
SelectOther ==
    /\ pc = "otherInit"
    /\ UNCHANGED <<sponsorFetch, outsideSelection>>
    /\ LET others == nonSponsorTokens(availableTokens, sponsorTokens)
           n == numOtherTokens(others)
       IN IF n > 0 /\ otherValue(estimatedValue).n > 0
          THEN /\ \E shuffled \in Shuffles(others) :
                    selectedOther' = SubSeq(shuffled, 1, n)
               /\ pc' = "otherPass"
          ELSE /\ selectedOther' = <<>>
               /\ pc' = "fallback"
    /\ UNCHANGED <<estimatedValue, availableTokens, sponsorTokens, i, j,
                   selectedTokens, selectedAmounts, result, priceSeen, path>>

\* One iteration of the other loop: await getTokenPrice(token.address).
OtherToken ==
    /\ pc = "otherPass"
    /\ UNCHANGED <<sponsorFetch, outsideSelection>>
    /\ LET token == selectedOther[j]
       IN \E tokenPrice \in Prices :
            LET after == processToken(selectedTokens, selectedAmounts, token, tokenPrice,
                                      valuePerToken(estimatedValue, Len(selectedOther)))
            IN /\ selectedTokens' = after.tokens
               /\ selectedAmounts' = after.amounts
               /\ priceSeen' = recordPrice(priceSeen, token.address, tokenPrice)
               /\ j' = j + 1
               /\ pc' = IF j = Len(selectedOther) THEN "fallback" ELSE "otherPass"
    /\ UNCHANGED <<estimatedValue, availableTokens, sponsorTokens, i, selectedOther,
                   result, path>>

\* if (selectedTokens.length === 0): availableTokens[0], min(requested, available).
Fallback ==
    /\ pc = "fallback"
    /\ UNCHANGED <<sponsorFetch, outsideSelection>>
    /\ IF Len(selectedTokens) = 0
       THEN LET fallbackToken == availableTokens[1] IN
            /\ selectedTokens' = push(selectedTokens, fallbackToken.address)
            /\ selectedAmounts' = push(selectedAmounts,
                                       amountToUse(estimatedValue, fallbackToken.balance))
            /\ path' = "fallback"
       ELSE UNCHANGED <<selectedTokens, selectedAmounts, path>>
    /\ pc' = "value"
    /\ UNCHANGED <<estimatedValue, availableTokens, sponsorTokens, i, selectedOther, j,
                   result, priceSeen>>

\* await calculateWalletValue(...) (it never throws; its value is only logged),
\* then return { tokens, amounts }.
ReturnSelection ==
    /\ pc = "value"
    /\ UNCHANGED <<sponsorFetch, outsideSelection>>
    /\ result' = returnResult(selectedTokens, selectedAmounts)
    /\ pc' = "done"
    /\ UNCHANGED <<estimatedValue, availableTokens, sponsorTokens, i, selectedOther, j,
                   selectedTokens, selectedAmounts, priceSeen, path>>

Next ==
    \/ SelectTokensForTier
    \/ GetAvailableTokensInTreasury
    \/ GetActiveSponsors
    \/ GetActiveSponsorsFails
    \/ SponsorToken
    \/ SelectOther
    \/ OtherToken
    \/ Fallback
    \/ ReturnSelection

Spec == Init /\ [][Next]_vars


(* ============================ price oracle ============================= *)

\* obj[key] = value on a plain object, Map.prototype.set on a Map.
Put(m, key, value) ==
    [x \in DOMAIN m \cup {key} |-> IF x = key THEN value ELSE m[x]]

\* The lowercase keys of a list of addresses.
Keys(addresses) == {toLowerCase(addresses[n]) : n \in 1..Len(addresses)}

\* What getCachedPrice returns for null.
NoCachedPrice == [price |-> 0, cached |-> FALSE, source |-> "null"]

\* Mutant of getCachedPrice: the age of the entry is not looked at.
getCachedPriceNoExpiry(cache, tokenAddress, t) ==
    LET key == toLowerCase(tokenAddress) IN
    IF key \in DOMAIN cache
    THEN [price |-> cache[key].price, cached |-> TRUE, source |-> cache[key].source]
    ELSE NoCachedPrice

\* getCachedPrice(tokenAddress) at time t.
getCachedPrice(cache, tokenAddress, t) ==
    LET key == toLowerCase(tokenAddress) IN
    IF key \in DOMAIN cache /\ t - cache[key].timestamp < CACHE_TTL
    THEN [price |-> cache[key].price, cached |-> TRUE, source |-> cache[key].source]
    ELSE NoCachedPrice

\* Mutant of setCachePrice: the key is the address as given.
setCachePriceRawKey(cache, tokenAddress, price, source, t) ==
    Put(cache, tokenAddress, [price |-> price, source |-> source, timestamp |-> t])

\* setCachePrice(tokenAddress, price, source) at time t.
setCachePrice(cache, tokenAddress, price, source, t) ==
    Put(cache, toLowerCase(tokenAddress),
        [price |-> price, source |-> source, timestamp |-> t])

\* { price, cached: false, source }.
Fetched(price, source) == [price |-> price, cached |-> FALSE, source |-> source]

\* { price: 0, cached: false, source: "none", error: "All sources failed" }.
AllSourcesFailed == [price |-> 0, cached |-> FALSE, source |-> "none"]

\* Mutant of checkCache: a cache hit is put on uncachedAddresses as well.
RECURSIVE checkCacheRefetchesHits(_, _, _, _, _, _)
checkCacheRefetchesHits(cache, addresses, n, results, uncached, t) ==
    IF n > Len(addresses) THEN [results |-> results, uncached |-> uncached]
    ELSE LET cached == getCachedPrice(cache, addresses[n], t) IN
         checkCacheRefetchesHits(cache, addresses, n + 1,
                                 IF cached.cached
                                 THEN Put(results, toLowerCase(addresses[n]), cached)
                                 ELSE results,
                                 Append(uncached, addresses[n]), t)

\* The cache-check loop of getTokenPrices: results and uncachedAddresses after
\* the addresses from position n on.
RECURSIVE checkCache(_, _, _, _, _, _)
checkCache(cache, addresses, n, results, uncached, t) ==
    IF n > Len(addresses) THEN [results |-> results, uncached |-> uncached]
    ELSE LET cached == getCachedPrice(cache, addresses[n], t) IN
         IF cached.cached
         THEN checkCache(cache, addresses, n + 1,
                         Put(results, toLowerCase(addresses[n]), cached), uncached, t)
         ELSE checkCache(cache, addresses, n + 1, results,
                         Append(uncached, addresses[n]), t)

\* Mutant of storePrimary: every price of the response is cached, a 0 too.
RECURSIVE storePrimaryAnyPrice(_, _, _, _, _)
storePrimaryAnyPrice(cache, results, prices, keys, t) ==
    IF keys = {} THEN [cache |-> cache, results |-> results]
    ELSE LET key == CHOOSE x \in keys : TRUE IN
         storePrimaryAnyPrice(setCachePrice(cache, key, prices[key], "coingecko", t),
                              Put(results, key, Fetched(prices[key], "coingecko")),
                              prices, keys \ {key}, t)

\* The loop over Object.entries(cgResult.prices): every price > 0 is cached
\* and becomes the result of its key.
RECURSIVE storePrimary(_, _, _, _, _)
storePrimary(cache, results, prices, keys, t) ==
    IF keys = {} THEN [cache |-> cache, results |-> results]
    ELSE LET key == CHOOSE x \in keys : TRUE IN
         IF prices[key] > 0
         THEN storePrimary(setCachePrice(cache, key, prices[key], "coingecko", t),
                           Put(results, key, Fetched(prices[key], "coingecko")),
                           prices, keys \ {key}, t)
         ELSE storePrimary(cache, results, prices, keys \ {key}, t)

\* The test of the Moralis loop for one address.
needsMoralis(results, address) ==
    \/ toLowerCase(address) \notin DOMAIN results
    \/ results[toLowerCase(address)].price = 0

\* The Moralis loop over uncachedAddresses: the first position from n on whose
\* address is sent to Moralis, 0 when the loop ends without another call.
RECURSIVE nextMoralis(_, _, _)
nextMoralis(results, uncached, n) ==
    IF n > Len(uncached) THEN 0
    ELSE IF needsMoralis(results, uncached[n]) THEN n
    ELSE nextMoralis(results, uncached, n + 1)

\* What fetchFromCoinGecko can return for a request: { success: false } or
\* { success: true, prices } with the requested contracts as lowercase keys.
CoinGeckoResponses(addresses) ==
    {[success |-> FALSE, prices |-> EmptyMap]}
        \cup {[success |-> TRUE, prices |-> f] : f \in [Keys(addresses) -> Quotes]}

\* What fetchFromMoralis can return: { success: false } or one price.
MoralisResponses ==
    {[success |-> FALSE, price |-> 0]}
        \cup {[success |-> TRUE, price |-> q] : q \in Quotes}

\* The answers a source can give now.  While the network is unreachable the
\* fetch inside the helper throws, and the helper's catch turns that into
\* { success: false }.
Answers(responses) == {r \in responses : unreachable => ~r.success}

\* Mutant of cgRequest: only the first uncached address is sent.
cgRequestFirstOnly(L) ==
    IF L.op = "getTokenPrice" THEN L.tokenAddresses
    ELSE SubSeq(L.uncachedAddresses, 1, 1)

\* The argument of the lookup's fetchFromCoinGecko call.
cgRequest(L) ==
    IF L.op = "getTokenPrice" THEN L.tokenAddresses ELSE L.uncachedAddresses

\* The argument of the lookup's current fetchFromMoralis call.
moralisRequest(L) ==
    IF L.op = "getTokenPrice" THEN L.tokenAddresses[1] ELSE L.uncachedAddresses[L.k]

\* fetchFromCoinGecko after the rate limiter: lastCoinGeckoCall = Date.now()
\* and the request is sent.
IssueCoinGecko(p, L) ==
    /\ lastCoinGeckoCall' = now
    /\ lookup' = [lookup EXCEPT ![p] =
                     [L EXCEPT !.pc = "cg_fetch",
                               !.wake = 0,
                               !.cgCalls = Append(L.cgCalls, cgRequest(L))]]

\* fetchFromCoinGecko up to its first await: sleep when the last call was less
\* than COINGECKO_RATE_LIMIT ago, else send at once.
CallCoinGecko(p, L) ==
    LET timeSinceLastCall == now - lastCoinGeckoCall IN
    IF timeSinceLastCall < COINGECKO_RATE_LIMIT
    THEN /\ lookup' = [lookup EXCEPT ![p] =
                          [L EXCEPT !.pc = "cg_sleep",
                                    !.wake = now + (COINGECKO_RATE_LIMIT - timeSinceLastCall)]]
         /\ UNCHANGED lastCoinGeckoCall
    ELSE IssueCoinGecko(p, L)

\* fetchFromMoralis after the rate limiter.
IssueMoralis(p, L) ==
    /\ lastMoralisCall' = now
    /\ lookup' = [lookup EXCEPT ![p] =
                     [L EXCEPT !.pc = "moralis_fetch",
                               !.wake = 0,
                               !.moralisCalls = Append(L.moralisCalls, moralisRequest(L))]]

\* fetchFromMoralis up to its first await.
CallMoralis(p, L) ==
    LET timeSinceLastCall == now - lastMoralisCall IN
    IF timeSinceLastCall < MORALIS_RATE_LIMIT
    THEN /\ lookup' = [lookup EXCEPT ![p] =
                          [L EXCEPT !.pc = "moralis_sleep",
                                    !.wake = now + (MORALIS_RATE_LIMIT - timeSinceLastCall)]]
         /\ UNCHANGED lastMoralisCall
    ELSE IssueMoralis(p, L)

\* return of the lookup to its caller.
Return(p, L) ==
    lookup' = [lookup EXCEPT ![p] = [L EXCEPT !.pc = "returned", !.k = 0,
                                                !.checkedAt = 0]]

\* A caller may start a lookup when it is not inside one.
CanStart(p) ==
    /\ lookup[p].pc \in {"idle", "returned"}
    /\ wallet.pc # "pricing"
    /\ started < MaxLookups

\* The lookup record of a call that has just checked the cache.
Started(op, addresses, checked) ==
    [IdleLookup EXCEPT !.op = op, !.tokenAddresses = addresses,
                       !.uncachedAddresses = checked.uncached,
                       !.results = checked.results,
                       !.checkedAt = now]

\* getTokenPrice(tokenAddress) up to its first suspension: a live cache entry
\* is returned, otherwise fetchFromCoinGecko(tokenAddress) is called.
GetTokenPrice(p) ==
    /\ CanStart(p)
    /\ started' = started + 1
    /\ \E tokenAddress \in OracleAddresses :
         LET L == Started("getTokenPrice", <<tokenAddress>>,
                          checkCache(priceCache, <<tokenAddress>>, 1, EmptyMap, <<>>, now))
         IN IF Len(L.uncachedAddresses) = 0
            THEN /\ Return(p, L)
                 /\ UNCHANGED lastCoinGeckoCall
            ELSE CallCoinGecko(p, L)
    /\ UNCHANGED <<now, priceCache, lastMoralisCall, advances, outsideOracle>>

\* getTokenPrices(tokenAddresses) up to its first suspension: the cache loop,
\* the early return when nothing is uncached, else one fetchFromCoinGecko call
\* for uncachedAddresses.
GetTokenPrices(p) ==
    /\ CanStart(p)
    /\ started' = started + 1
    /\ \E tokenAddresses \in Batches :
         LET L == Started("getTokenPrices", tokenAddresses,
                          checkCache(priceCache, tokenAddresses, 1, EmptyMap, <<>>, now))
         IN IF Len(L.uncachedAddresses) = 0
            THEN /\ Return(p, L)
                 /\ UNCHANGED lastCoinGeckoCall
            ELSE CallCoinGecko(p, L)
    /\ UNCHANGED <<now, priceCache, lastMoralisCall, advances, outsideOracle>>

\* The rate limiter's setTimeout of fetchFromCoinGecko fires.
CoinGeckoWake(p) ==
    /\ lookup[p].pc = "cg_sleep"
    /\ now >= lookup[p].wake
    /\ IssueCoinGecko(p, lookup[p])
    /\ UNCHANGED <<now, priceCache, lastMoralisCall, started, advances, outsideOracle>>

\* The rest of the Moralis loop from position n: the next call, or the return.
MoralisLoop(p, L, n) ==
    LET m == nextMoralis(L.results, L.uncachedAddresses, n) IN
    IF m = 0
    THEN /\ Return(p, L)
         /\ UNCHANGED lastMoralisCall
    ELSE CallMoralis(p, [L EXCEPT !.k = m])

\* fetchFromCoinGecko returns to getTokenPrice.
PrimaryAnswersSingle(p, L, cgResult) ==
    LET tokenAddress == L.tokenAddresses[1]
        key == toLowerCase(tokenAddress)
    IN IF cgResult.success /\ cgResult.prices[key] # 0
       THEN /\ priceCache' = setCachePrice(priceCache, tokenAddress,
                                           cgResult.prices[key], "coingecko", now)
            /\ Return(p, [L EXCEPT !.results = Put(L.results, key,
                                        Fetched(cgResult.prices[key], "coingecko")),
                                   !.cgPriced = {key}])
            /\ UNCHANGED lastMoralisCall
       ELSE /\ CallMoralis(p, L)
            /\ UNCHANGED priceCache

\* fetchFromCoinGecko returns to getTokenPrices.
PrimaryAnswersBatch(p, L, cgResult) ==
    LET stored == IF cgResult.success
                  THEN storePrimary(priceCache, L.results, cgResult.prices,
                                    DOMAIN cgResult.prices, now)
                  ELSE [cache |-> priceCache, results |-> L.results]
        priced == {key \in DOMAIN cgResult.prices : cgResult.prices[key] > 0}
    IN /\ priceCache' = stored.cache
       /\ MoralisLoop(p, [L EXCEPT !.results = stored.results, !.cgPriced = priced], 1)

\* The CoinGecko request of a lookup is answered, or fails.
CoinGeckoResponse(p) ==
    /\ lookup[p].pc = "cg_fetch"
    /\ \E cgResult \in Answers(CoinGeckoResponses(cgRequest(lookup[p]))) :
         LET L == lookup[p] IN
         IF L.op = "getTokenPrice"
         THEN PrimaryAnswersSingle(p, L, cgResult)
         ELSE PrimaryAnswersBatch(p, L, cgResult)
    /\ UNCHANGED <<now, lastCoinGeckoCall, started, advances, outsideOracle>>

\* The rate limiter's setTimeout of fetchFromMoralis fires.
MoralisWake(p) ==
    /\ lookup[p].pc = "moralis_sleep"
    /\ now >= lookup[p].wake
    /\ IssueMoralis(p, lookup[p])
    /\ UNCHANGED <<now, priceCache, lastCoinGeckoCall, started, advances,
                   outsideOracle>>

\* Mutant of MoralisResponse: a failed Moralis call is not caught, so that
\* getTokenPrices ends in its catch and returns {}.
MoralisResponseFailureThrows(p) ==
    /\ lookup[p].pc = "moralis_fetch"
    /\ \E moralisResult \in Answers(MoralisResponses) :
         LET L == lookup[p]
             address == moralisRequest(L)
             key == toLowerCase(address)
             ok == moralisResult.success /\ moralisResult.price # 0
             after == IF ok
                      THEN [L EXCEPT !.results =
                               Put(L.results, key, Fetched(moralisResult.price, "moralis")),
                                     !.moralisFailed = L.moralisFailed \ {key}]
                      ELSE [L EXCEPT !.results = EmptyMap,
                                     !.moralisFailed = L.moralisFailed \cup {key}]
         IN /\ priceCache' = IF ok
                             THEN setCachePrice(priceCache, address,
                                                moralisResult.price, "moralis", now)
                             ELSE priceCache
            /\ IF L.op = "getTokenPrice" \/ ~ok
               THEN /\ Return(p, after)
                    /\ UNCHANGED lastMoralisCall
               ELSE MoralisLoop(p, after, L.k + 1)
    /\ UNCHANGED <<now, lastCoinGeckoCall, started, advances, outsideOracle>>

\* The Moralis request of a lookup is answered, or fails: a truthy price is
\* cached and returned, anything else is price 0 with source "none".
MoralisResponse(p) ==
    /\ lookup[p].pc = "moralis_fetch"
    /\ \E moralisResult \in Answers(MoralisResponses) :
         LET L == lookup[p]
             address == moralisRequest(L)
             key == toLowerCase(address)
             ok == moralisResult.success /\ moralisResult.price # 0
             after == IF ok
                      THEN [L EXCEPT !.results =
                               Put(L.results, key, Fetched(moralisResult.price, "moralis")),
                                     !.moralisFailed = L.moralisFailed \ {key}]
                      ELSE [L EXCEPT !.results = Put(L.results, key, AllSourcesFailed),
                                     !.moralisFailed = L.moralisFailed \cup {key}]
         IN /\ priceCache' = IF ok
                             THEN setCachePrice(priceCache, address,
                                                moralisResult.price, "moralis", now)
                             ELSE priceCache
            /\ IF L.op = "getTokenPrice"
               THEN /\ Return(p, after)
                    /\ UNCHANGED lastMoralisCall
               ELSE MoralisLoop(p, after, L.k + 1)
    /\ UNCHANGED <<now, lastCoinGeckoCall, started, advances, outsideOracle>>

\* Time passes.  The clock is read in steps of TimeStep; a setTimeout fires at
\* the first reading that is not before its due time.
Advance ==
    /\ advances < MaxAdvances
    /\ advances' = advances + 1
    /\ now' = now + TimeStep
    /\ UNCHANGED <<priceCache, lastCoinGeckoCall, lastMoralisCall, lookup, started,
                   outsideOracle>>

OracleNext ==
    \/ \E p \in Callers : GetTokenPrice(p)
    \/ \E p \in Callers : GetTokenPrices(p)
    \/ \E p \in Callers : CoinGeckoWake(p)
    \/ \E p \in Callers : CoinGeckoResponse(p)
    \/ \E p \in Callers : MoralisWake(p)
    \/ \E p \in Callers : MoralisResponse(p)
    \/ Advance

OracleSpec == Init /\ [][OracleNext]_vars


(* ========================= using the price oracle ======================= *)

\* The flow of a script that calls the oracle's functions one after another.
ScriptCaller == 1

\* The token lists calculateWalletValue is called with.
WalletBatches == {<<"DEGEN", "WETH">>, <<"WETH">>}

\* The properties the line objects of a caller have: the oracle's own script
\* passes { address, symbol, amount, decimals }, handleWalletReady passes
\* { address, amount }, selectTokensForTier passes { address, balance }.
LineFields == {{"amount", "decimals"}, {"amount"}, {"balance"}}

\* One line object: units is the token amount in base units (under the name
\* the caller chose), decimals the token's decimals.
Line(address, fields) ==
    [address |-> address, fields |-> fields, units |-> LineUnits,
     decimals |-> TokenDecimals[address]]

WalletInputs ==
    {[n \in 1..Len(batch) |-> Line(batch[n], fields)] :
        batch \in WalletBatches, fields \in LineFields}

\* Number(token.amount): NaN when the object has no amount.
NumberOfAmount(token) ==
    IF "amount" \in token.fields THEN Number(Rat(token.units, 1)) ELSE NaN

\* Math.pow(10, token.decimals): NaN when the object has no decimals.
PowOfDecimals(token) ==
    IF "decimals" \in token.fields THEN Number(Rat(Pow10(token.decimals), 1)) ELSE NaN

\* The entries calculateWalletValue pushes for one line.
tokenValue(token, prices) ==
    LET key == toLowerCase(token.address)
        amount == NumDiv(NumberOfAmount(token), PowOfDecimals(token))
    IN IF key \in DOMAIN prices /\ prices[key].price > 0
       THEN <<[address |-> token.address, amount |-> amount,
               price |-> prices[key].price,
               value |-> NumTimes(amount, prices[key].price),
               source |-> prices[key].source]>>
       ELSE <<[address |-> token.address, amount |-> amount, price |-> 0,
               value |-> Number(Rat(0, 1)), source |-> "none"]>>

\* The loop of calculateWalletValue from line n on.
RECURSIVE walletValues(_, _, _, _, _)
walletValues(tokens, prices, n, totalValue, tokenValues) ==
    IF n > Len(tokens)
    THEN [pc |-> "done", tokens |-> tokens, totalValue |-> totalValue,
          tokenValues |-> tokenValues]
    ELSE LET pushed == tokenValue(tokens[n], prices)
             value == IF pushed[1].price > 0 THEN pushed[1].value ELSE Number(Rat(0, 1))
         IN walletValues(tokens, prices, n + 1,
                         IF pushed[1].price > 0 THEN NumPlus(totalValue, value)
                         ELSE totalValue,
                         tokenValues \o pushed)

\* calculateWalletValue(tokens) up to its await: getTokenPrices is called with
\* the lines' addresses.
CalculateWalletValue ==
    /\ CanStart(ScriptCaller)
    /\ started' = started + 1
    /\ \E tokens \in WalletInputs :
         LET addresses == [n \in 1..Len(tokens) |-> tokens[n].address]
             L == Started("getTokenPrices", addresses,
                          checkCache(priceCache, addresses, 1, EmptyMap, <<>>, now))
         IN /\ wallet' = [NoWalletValue EXCEPT !.pc = "pricing", !.tokens = tokens]
            /\ IF Len(L.uncachedAddresses) = 0
               THEN /\ Return(ScriptCaller, L)
                    /\ UNCHANGED lastCoinGeckoCall
               ELSE CallCoinGecko(ScriptCaller, L)
    /\ UNCHANGED <<now, priceCache, lastMoralisCall, advances, unreachable, cacheStats,
                   selectionVars, refreshVars, serviceVars,
                   timerVars>>

\* getTokenPrices has answered: the values are computed and returned.
WalletValueReturns ==
    /\ wallet.pc = "pricing"
    /\ lookup[ScriptCaller].pc = "returned"
    /\ wallet' = walletValues(wallet.tokens, lookup[ScriptCaller].results, 1,
                              Number(Rat(0, 1)), <<>>)
    /\ UNCHANGED <<oracleVars, unreachable, cacheStats, selectionVars, refreshVars, serviceVars,
                   timerVars>>

\* clearPriceCache()
ClearPriceCache ==
    /\ lookup[ScriptCaller].pc \in {"idle", "returned"}
    /\ wallet.pc # "pricing"
    /\ priceCache' = EmptyMap
    /\ UNCHANGED <<now, lastCoinGeckoCall, lastMoralisCall, lookup, started, advances,
                   useVars, selectionVars, refreshVars, serviceVars,
                   timerVars>>

\* Mutant of cacheStatsAt: an expired entry is not counted in the total.
cacheStatsAtValidOnly(cache, t) ==
    LET valid == {key \in DOMAIN cache : t - cache[key].timestamp < CACHE_TTL}
        expired == DOMAIN cache \ valid
    IN [total |-> Cardinality(valid), valid |-> Cardinality(valid),
        expired |-> Cardinality(expired), ttl |-> CACHE_TTL \div 1000]

\* What getCacheStats() returns at time t.
cacheStatsAt(cache, t) ==
    LET valid == {key \in DOMAIN cache : t - cache[key].timestamp < CACHE_TTL}
        expired == DOMAIN cache \ valid
    IN [total |-> Cardinality(DOMAIN cache), valid |-> Cardinality(valid),
        expired |-> Cardinality(expired), ttl |-> CACHE_TTL \div 1000]

\* getCacheStats()
GetCacheStats ==
    /\ lookup[ScriptCaller].pc \in {"idle", "returned"}
    /\ wallet.pc # "pricing"
    /\ cacheStats' = cacheStatsAt(priceCache, now)
    /\ UNCHANGED <<oracleVars, unreachable, wallet, selectionVars, refreshVars, serviceVars,
                   timerVars>>

\* The environment: from the start no request reaches a price source.
NetworkUnreachable ==
    /\ started = 0
    /\ ~unreachable
    /\ unreachable' = TRUE
    /\ UNCHANGED <<oracleVars, cacheStats, wallet, selectionVars, refreshVars, serviceVars,
                   timerVars>>

ScriptNext ==
    \/ GetTokenPrice(ScriptCaller)
    \/ GetTokenPrices(ScriptCaller)
    \/ CalculateWalletValue
    \/ WalletValueReturns
    \/ CoinGeckoWake(ScriptCaller)
    \/ CoinGeckoResponse(ScriptCaller)
    \/ MoralisWake(ScriptCaller)
    \/ MoralisResponse(ScriptCaller)
    \/ ClearPriceCache
    \/ GetCacheStats
    \/ NetworkUnreachable
    \/ Advance

ScriptSpec == Init /\ [][ScriptNext]_vars

\* One flow calling getTokenPrice and getTokenPrices one after another.
LookupNext ==
    \/ GetTokenPrice(ScriptCaller)
    \/ GetTokenPrices(ScriptCaller)
    \/ CoinGeckoWake(ScriptCaller)
    \/ CoinGeckoResponse(ScriptCaller)
    \/ MoralisWake(ScriptCaller)
    \/ MoralisResponse(ScriptCaller)
    \/ Advance

\* What the runtime guarantees to a lookup: a setTimeout whose time has come
\* fires, and (the case looked at) Moralis answers every request.  Nothing
\* makes a request to CoinGecko end: the fetch is awaited without a timeout.
LookupFairness ==
    /\ WF_vars(CoinGeckoWake(ScriptCaller))
    /\ WF_vars(MoralisWake(ScriptCaller))
    /\ WF_vars(MoralisResponse(ScriptCaller))

FairLookupSpec == Init /\ [][LookupNext]_vars /\ LookupFairness

(* ============================ snapshot refresh ========================== *)

\* The flows that run updatePriceCache: the setInterval timer (which does not
\* wait for the previous run) and forceUpdateCache.
RefreshFlows == Callers

\* Bound: runs of updatePriceCache that get as far as the price lookup, as
\* many as there are flows: two runs can overlap or follow each other.
MaxRefreshes == Cardinality(RefreshFlows)

\* The address of the native-currency record.
ZeroAddress == "0x0000000000000000000000000000000000000000"

\* getActiveSponsors() as updatePriceCache reads it: the call throws, or
\* returns the list.
SponsorReads ==
    {[ok |-> FALSE, sponsors |-> <<>>],
     [ok |-> TRUE, sponsors |-> <<>>],
     [ok |-> TRUE, sponsors |-> <<"DEGEN", "WETH">>]}

\* getTokenBalance(token) and getBalance(treasury): the read throws, or
\* returns a balance.
BalanceReads ==
    {[ok |-> FALSE, balance |-> 0]}
        \cup {[ok |-> TRUE, balance |-> b] : b \in {0, MinBalance}}

\* The reads of one refresh: the treasury holds WETH, and holds no DEGEN or
\* its read fails.
TokenReads(sponsors) ==
    {reads \in [1..Len(sponsors) -> BalanceReads] :
        \A n \in 1..Len(sponsors) :
           IF sponsors[n] = "WETH"
           THEN reads[n].ok /\ reads[n].balance > 0
           ELSE reads[n].balance = 0}

EthReads == {r \in BalanceReads : r.ok => r.balance > 0}

\* tokenDataPromises and its filter(Boolean), from sponsor n on: one record per
\* sponsor token whose reads succeeded.
RECURSIVE tokensData(_, _, _)
tokensData(sponsors, reads, n) ==
    IF n > Len(sponsors) THEN <<>>
    ELSE (IF reads[n].ok
          THEN <<[address |-> toLowerCase(sponsors[n]),
                  decimals |-> TokenDecimals[sponsors[n]],
                  balance |-> reads[n].balance,
                  balanceFormatted |->
                      Number(Rat(reads[n].balance, Pow10(TokenDecimals[sponsors[n]])))]>>
          ELSE <<>>) \o tokensData(sponsors, reads, n + 1)

\* prices[token.address] || 0: the oracle's result object when the batch has
\* one for the address, else the number 0.
priceOf(prices, address) ==
    IF address \in DOMAIN prices
    THEN [object |-> TRUE, price |-> prices[address].price, source |-> prices[address].source]
    ELSE [object |-> FALSE, price |-> 0, source |-> "none"]

\* balanceFormatted * price: NaN when price is an object.
valueOf(balanceFormatted, price) ==
    IF price.object THEN NaN ELSE NumTimes(balanceFormatted, price.price)

\* ethWithPrice: the record of the native currency (with the decimals of
\* WETH).
ethWithPrice(R, ethPrice) ==
    LET price == [object |-> FALSE, price |-> ethPrice, source |-> "coingecko"]
        balanceFormatted == Number(Rat(R.ethBalance, Pow10(TokenDecimals["WETH"])))
    IN [address |-> ZeroAddress, decimals |-> TokenDecimals["WETH"],
        balance |-> R.ethBalance, balanceFormatted |-> balanceFormatted,
        price |-> price, value |-> valueOf(balanceFormatted, price),
        cycle |-> R.cycle]

\* One element of tokensWithPrices; every record carries the number of the
\* refresh that built it.
tokenWithPrice(R, token) ==
    LET price == priceOf(R.prices, token.address)
    IN [address |-> token.address, decimals |-> token.decimals,
        balance |-> token.balance, balanceFormatted |-> token.balanceFormatted,
        price |-> price, value |-> valueOf(token.balanceFormatted, price),
        cycle |-> R.cycle]

\* Mutant of allTokens: the ETH record is left out when its price is 0.
allTokensEthWhenPriced(R, ethPrice) ==
    (IF ethPrice > 0 THEN <<ethWithPrice(R, ethPrice)>> ELSE <<>>)
    \o [n \in 1..Len(R.tokensData) |-> tokenWithPrice(R, R.tokensData[n])]

\* allTokens = [ethWithPrice, ...tokensWithPrices]
allTokens(R, ethPrice) ==
    <<ethWithPrice(R, ethPrice)>>
    \o [n \in 1..Len(R.tokensData) |-> tokenWithPrice(R, R.tokensData[n])]

\* The object assigned to priceCache at the end of a refresh.
newSnapshot(R, ethPrice, t) ==
    [tokens |-> allTokens(R, ethPrice), lastUpdate |-> t,
     nextUpdate |-> t + UPDATE_INTERVAL, tokenCount |-> Len(allTokens(R, ethPrice)),
     cycle |-> R.cycle]

Ended(f, outcome) ==
    refresh' = [refresh EXCEPT ![f] = [IdleRefresh EXCEPT !.outcome = outcome]]

\* Mutant of ReturnsEarly: the dates of the published object are renewed.
ReturnsEarlyRenewingDates(f, outcome) ==
    /\ Ended(f, outcome)
    /\ snapshot' = [snapshot EXCEPT !.lastUpdate = now, !.nextUpdate = now + UPDATE_INTERVAL]

\* updatePriceCache() returns before it has assigned priceCache: on finding no
\* active sponsors, or from its catch, which logs the error.
ReturnsEarly(f, outcome) ==
    /\ Ended(f, outcome)
    /\ UNCHANGED snapshot

\* updatePriceCache() from its start to its call of getTokenPrices: the reads
\* of the sponsor list, of each sponsor token and of the treasury's balance.
UpdatePriceCache(f) ==
    /\ refresh[f].pc = "idle"
    /\ lookup[f].pc \in {"idle", "returned"}
    /\ \E activeSponsors \in SponsorReads :
         IF ~activeSponsors.ok
         THEN /\ ReturnsEarly(f, "error")
              /\ UNCHANGED <<lookup, started, lastCoinGeckoCall>>
         ELSE IF Len(activeSponsors.sponsors) = 0
         THEN /\ ReturnsEarly(f, "noSponsors")
              /\ UNCHANGED <<lookup, started, lastCoinGeckoCall>>
         ELSE \E reads \in TokenReads(activeSponsors.sponsors),
                 ethBalance \in EthReads :
                 IF ~ethBalance.ok
                 THEN /\ ReturnsEarly(f, "error")
                      /\ UNCHANGED <<lookup, started, lastCoinGeckoCall>>
                 ELSE LET data == tokensData(activeSponsors.sponsors, reads, 1)
                          tokenAddresses == [n \in 1..Len(data) |-> data[n].address]
                          L == Started("getTokenPrices", tokenAddresses,
                                       checkCache(priceCache, tokenAddresses, 1,
                                                  EmptyMap, <<>>, now))
                      IN /\ CanStart(f)
                         /\ started < MaxRefreshes
                         /\ started' = started + 1
                         /\ UNCHANGED snapshot
                         /\ refresh' = [refresh EXCEPT ![f] =
                               [IdleRefresh EXCEPT !.pc = "prices",
                                                   !.cycle = started + 1,
                                                   !.tokensData = data,
                                                   !.ethBalance = ethBalance.balance]]
                         /\ IF Len(L.uncachedAddresses) = 0
                            THEN /\ Return(f, L)
                                 /\ UNCHANGED lastCoinGeckoCall
                            ELSE CallCoinGecko(f, L)
    /\ UNCHANGED <<now, priceCache, lastMoralisCall, advances,
                   selectionVars, useVars, serviceVars,
                   timerVars>>

\* getTokenPrices has answered; the request for the price of ETH is sent.
FetchEthPrice(f) ==
    /\ refresh[f].pc = "prices"
    /\ lookup[f].pc = "returned"
    /\ refresh' = [refresh EXCEPT ![f] = [@ EXCEPT !.pc = "eth_price",
                                                   !.prices = lookup[f].results]]
    /\ UNCHANGED <<oracleVars, snapshot, selectionVars, useVars, serviceVars,
                   timerVars>>

\* Mutant of PublishSnapshot: the new records are written into the published
\* object one field at a time, the token list last.
PublishSnapshotInPlace(f) ==
    /\ refresh[f].pc = "eth_price"
    /\ \E ethPrice \in Quotes :
         LET new == newSnapshot(refresh[f], ethPrice, now)
         IN snapshot' = [new EXCEPT !.tokens =
                            IF Len(snapshot.tokens) > 1
                            THEN <<new.tokens[1]>> \o Tail(snapshot.tokens)
                            ELSE new.tokens]
    /\ Ended(f, "published")
    /\ UNCHANGED <<oracleVars, selectionVars, useVars, serviceVars,
                   timerVars>>

\* The ETH price request has ended (price 0 when it failed): the records are
\* built and the new object is assigned to priceCache.
PublishSnapshot(f) ==
    /\ refresh[f].pc = "eth_price"
    /\ \E ethPrice \in Quotes :
         snapshot' = newSnapshot(refresh[f], ethPrice, now)
    /\ Ended(f, "published")
    /\ UNCHANGED <<oracleVars, selectionVars, useVars, serviceVars,
                   timerVars>>

\* getCachedToken(tokenAddress) on a snapshot object.
getCachedToken(S, tokenAddress) ==
    {S.tokens[n] : n \in {m \in 1..Len(S.tokens) :
         /\ toLowerCase(S.tokens[m].address) = toLowerCase(tokenAddress)
         /\ \A k \in 1..(m - 1) :
               toLowerCase(S.tokens[k].address) # toLowerCase(tokenAddress)}}

\* getCachedPrices() on a snapshot object.
getCachedPrices(S) == S

RefreshNext ==
    \/ \E f \in RefreshFlows : UpdatePriceCache(f)
    \/ \E f \in RefreshFlows : CoinGeckoWake(f)
    \/ \E f \in RefreshFlows : CoinGeckoResponse(f)
    \/ \E f \in RefreshFlows : MoralisWake(f)
    \/ \E f \in RefreshFlows : MoralisResponse(f)
    \/ \E f \in RefreshFlows : FetchEthPrice(f)
    \/ \E f \in RefreshFlows : PublishSnapshot(f)
    \/ Advance

RefreshSpec == Init /\ [][RefreshNext]_vars

(* ============================ event handling ============================ *)

\* The requestIds of the WalletReady events delivered to the listener; each
\* is handled by its own call of handleWalletReady (logs.forEach).
Events == {1, 2}

\* isAuthorizedBackend(account.address): the read throws, or returns a boolean.
AuthorizationReads == {"throws", "authorized", "unauthorized"}

\* waitForTransactionReceipt: throws (timeout), or returns the receipt of the
\* mined transaction, whose status is success or reverted.
ReceiptOutcomes == {"throws", "success", "reverted"}

\* The handler's catch: the error is logged and the handler ends.
Caught(e, H) == handler' = [handler EXCEPT ![e] = [H EXCEPT !.pc = "failed"]]

\* handleWalletReady(log) up to its first await: generateNewWallet, then the
\* call of selectTokensForTier.
HandleWalletReady(e) ==
    /\ handler[e].pc = "pending"
    /\ handler' = [handler EXCEPT ![e] =
                      [@ EXCEPT !.pc = "select", !.steps = <<"generate", "select">>]]
    /\ UNCHANGED <<wallets, cleanupInterval, cleanupDue, timerVars,
                   selectionVars, oracleVars, useVars, refreshVars>>

\* selectTokensForTier has returned { tokens, amounts } (it never throws: its
\* catch returns the USDC-only result); fundWallet is called and starts its
\* read of isAuthorizedBackend.
SelectionReturned(e) ==
    /\ handler[e].pc = "select"
    /\ handler' = [handler EXCEPT ![e] =
                      [@ EXCEPT !.pc = "authorize", !.steps = Append(@, "fund")]]
    /\ UNCHANGED <<wallets, cleanupInterval, cleanupDue, timerVars,
                   selectionVars, oracleVars, useVars, refreshVars>>

\* Mutant of AuthorizationRead: the answer of the treasury is not looked at.
AuthorizationReadIgnored(e) ==
    /\ handler[e].pc = "authorize"
    /\ \E isAuthorized \in AuthorizationReads :
         LET H == [handler[e] EXCEPT !.isAuthorized = isAuthorized] IN
         IF isAuthorized = "throws"
         THEN Caught(e, H)
         ELSE handler' = [handler EXCEPT ![e] = [H EXCEPT !.pc = "send"]]
    /\ UNCHANGED <<wallets, cleanupInterval, cleanupDue, timerVars,
                   selectionVars, oracleVars, useVars, refreshVars>>

\* The read of isAuthorizedBackend has ended: fundWallet throws unless the
\* answer is true, and the handler's catch ends the handling.
AuthorizationRead(e) ==
    /\ handler[e].pc = "authorize"
    /\ \E isAuthorized \in AuthorizationReads :
         LET H == [handler[e] EXCEPT !.isAuthorized = isAuthorized] IN
         IF isAuthorized # "authorized"
         THEN Caught(e, H)
         ELSE handler' = [handler EXCEPT ![e] = [H EXCEPT !.pc = "send"]]
    /\ UNCHANGED <<wallets, cleanupInterval, cleanupDue, timerVars,
                   selectionVars, oracleVars, useVars, refreshVars>>

\* walletClient.writeContract(fundWallet): the transaction is sent and its
\* hash returned, or the call throws.
WriteContract(e) ==
    /\ handler[e].pc = "send"
    /\ \/ handler' = [handler EXCEPT ![e] =
                         [@ EXCEPT !.pc = "receipt", !.transaction = "sent"]]
       \/ Caught(e, handler[e])
    /\ UNCHANGED <<wallets, cleanupInterval, cleanupDue, timerVars,
                   selectionVars, oracleVars, useVars, refreshVars>>

\* waitForTransactionReceipt has ended; fundWallet returns the receipt as it
\* is and the handler goes on to calculateWalletValue.
ReceiptArrived(e) ==
    /\ handler[e].pc = "receipt"
    /\ \E receipt \in ReceiptOutcomes :
         IF receipt = "throws"
         THEN Caught(e, handler[e])
         ELSE handler' = [handler EXCEPT ![e] =
                             [@ EXCEPT !.pc = "value", !.transaction = receipt]]
    /\ UNCHANGED <<wallets, cleanupInterval, cleanupDue, timerVars,
                   selectionVars, oracleVars, useVars, refreshVars>>

\* calculateWalletValue has returned (it never throws); storeWalletCredentials
\* is called.
WalletValued(e) ==
    /\ handler[e].pc = "value"
    /\ handler' = [handler EXCEPT ![e] =
                      [@ EXCEPT !.pc = "store", !.steps = Append(@, "store")]]
    /\ UNCHANGED <<wallets, cleanupInterval, cleanupDue, timerVars,
                   selectionVars, oracleVars, useVars, refreshVars>>

\* storeWallet: the row is inserted with created_at = CURRENT_TIMESTAMP, or
\* the insert fails and the error is rethrown to the handler's catch.
StoreWallet(e) ==
    /\ handler[e].pc = "store"
    /\ \/ /\ wallets' = wallets \cup {[request_id |-> e, age |-> 0]}
          /\ handler' = [handler EXCEPT ![e] = [@ EXCEPT !.pc = "done"]]
       \/ /\ Caught(e, handler[e])
          /\ UNCHANGED wallets
    /\ UNCHANGED <<cleanupInterval, cleanupDue, timerVars,
                   selectionVars, oracleVars, useVars, refreshVars>>

(* ----------------------------- auto-cleanup ----------------------------- *)

\* startAutoCleanup(): unless it is running already, one cleanup run is
\* started at once and the interval timer is set.
StartAutoCleanup ==
    /\ IF cleanupInterval
       THEN UNCHANGED <<cleanupInterval, cleanupDue>>
       ELSE cleanupInterval' = TRUE /\ cleanupDue' = TRUE
    /\ UNCHANGED <<handler, wallets, timerVars,
                   selectionVars, oracleVars, useVars, refreshVars>>

\* stopAutoCleanup(): the interval timer is cleared; a run that has been
\* started goes on.
StopAutoCleanup ==
    /\ cleanupInterval
    /\ cleanupInterval' = FALSE
    /\ UNCHANGED <<handler, wallets, cleanupDue, timerVars,
                   selectionVars, oracleVars, useVars, refreshVars>>

\* One minute passes: every row is a minute older (a row's created_at is kept
\* as its age, with every age above OldAge taken as OldAge, so that time can
\* pass forever), and the interval timer, if set, fires.
Tick ==
    /\ wallets' = {[w EXCEPT !.age = Min(w.age + 1, OldAge)] : w \in wallets}
    /\ cleanupDue' = (cleanupDue \/ cleanupInterval)
    /\ UNCHANGED <<handler, cleanupInterval, timerVars,
                   selectionVars, oracleVars, useVars, refreshVars>>

\* Mutant of rowsToDelete: rows that are exactly five minutes old go too.
rowsToDeleteFromFiveMinutes(rows) == {w \in rows : w.age >= WALLET_TTL_MINUTES}

\* delete ... lt("created_at", fiveMinutesAgo): the rows created before
\* Date.now() - 5 minutes.
rowsToDelete(rows) == {w \in rows : w.age > WALLET_TTL_MINUTES}

\* A run of cleanupOldWallets() that the database answers.
CleanupOldWallets ==
    /\ cleanupDue
    /\ cleanupDue' = FALSE
    /\ wallets' = wallets \ rowsToDelete(wallets)
    /\ UNCHANGED <<handler, cleanupInterval, timerVars,
                   selectionVars, oracleVars, useVars, refreshVars>>

\* A run of cleanupOldWallets() in which the delete returns an error: it is
\* thrown, and logged by the caller's catch.
CleanupOldWalletsFails ==
    /\ cleanupDue
    /\ cleanupDue' = FALSE
    /\ UNCHANGED <<handler, wallets, cleanupInterval, timerVars,
                   selectionVars, oracleVars, useVars, refreshVars>>

ServiceNext ==
    \/ \E e \in Events : HandleWalletReady(e)
    \/ \E e \in Events : SelectionReturned(e)
    \/ \E e \in Events : AuthorizationRead(e)
    \/ \E e \in Events : WriteContract(e)
    \/ \E e \in Events : ReceiptArrived(e)
    \/ \E e \in Events : WalletValued(e)
    \/ \E e \in Events : StoreWallet(e)
    \/ StartAutoCleanup
    \/ StopAutoCleanup
    \/ Tick
    \/ CleanupOldWallets
    \/ CleanupOldWalletsFails

ServiceSpec == Init /\ [][ServiceNext]_vars

\* Time passes, and the database answers a cleanup run again and again.
ServiceFairness ==
    /\ WF_vars(Tick)
    /\ SF_vars(CleanupOldWallets)

FairServiceSpec == ServiceSpec /\ ServiceFairness

(* ========================= the refresh timer ============================ *)

\* How often startPriceCache is called, and how many timer refreshes are
\* followed.
MaxStarts == 3
MaxTimerRuns == 2

timerFrame == <<serviceVars, selectionVars, oracleVars, useVars, refreshVars>>

\* startPriceCache(): the initial updatePriceCache() is started; its then
\* callback is still to run.
StartPriceCache ==
    /\ timerCalls.starts < MaxStarts
    /\ ~timerCalls.stopped
    /\ timerCalls' = [timerCalls EXCEPT !.starts = @ + 1]
    /\ initialUpdates' = initialUpdates \cup {timerCalls.starts + 1}
    /\ UNCHANGED <<updateTimer, intervals, timerFrame>>

\* The initial refresh of the k-th startPriceCache has ended (it never
\* rejects): the then callback sets an interval and keeps its handle in
\* updateTimer.
InitialUpdateEnded(k) ==
    /\ k \in initialUpdates
    /\ initialUpdates' = initialUpdates \ {k}
    /\ intervals' = intervals \cup {k}
    /\ updateTimer' = k
    /\ UNCHANGED <<timerCalls, timerFrame>>

\* stopPriceCache(): the interval whose handle is in updateTimer, if any, is
\* cleared.
StopPriceCache ==
    /\ IF updateTimer # 0
       THEN intervals' = intervals \ {updateTimer} /\ updateTimer' = 0
       ELSE UNCHANGED <<updateTimer, intervals>>
    /\ timerCalls' = [timerCalls EXCEPT !.stopped = TRUE]
    /\ UNCHANGED <<initialUpdates, timerFrame>>

\* An active interval fires and calls updatePriceCache.
TimerFires(k) ==
    /\ k \in intervals
    /\ timerCalls.runs < MaxTimerRuns
    /\ timerCalls' = [timerCalls EXCEPT !.runs = @ + 1,
                                        !.runsAfterStop = @ + (IF timerCalls.stopped THEN 1 ELSE 0)]
    /\ UNCHANGED <<updateTimer, intervals, initialUpdates, timerFrame>>

TimerNext ==
    \/ StartPriceCache
    \/ \E k \in 1..MaxStarts : InitialUpdateEnded(k)
    \/ StopPriceCache
    \/ \E k \in 1..MaxStarts : TimerFires(k)

TimerSpec == Init /\ [][TimerNext]_vars

(* ======================= properties of a selection ===================== *)

Done == pc = "done"

\* The balance the selection read for an address (0 when the token is not in
\* availableTokens: its read returned 0 or threw).
BalanceRead(address) ==
    IF \E k \in 1..Len(availableTokens) : availableTokens[k].address = address
    THEN (CHOOSE t \in {availableTokens[k] : k \in 1..Len(availableTokens)} :
              t.address = address).balance
    ELSE 0

Lines == 1..Len(result.tokens)

\* The lookup of address returned price 0.
LookedUpUnpriced(address) == address \in DOMAIN priceSeen /\ priceSeen[address] = 0

\* The lookup of address returned a price > 0.
LookedUpPriced(address) == address \in DOMAIN priceSeen /\ priceSeen[address] > 0

SponsorLines == {k \in Lines : result.tokens[k] \in sponsorTokens}
OtherLines == {k \in Lines : result.tokens[k] \notin sponsorTokens}

\* floor(share of the target / price * 10^decimals), the target being cut in
\* `parts` equal parts, for the token of line k.
ShareAmount(k, parts) ==
    LET T == Rat(estimatedValue, USDC_SCALE)
        a == result.tokens[k]
    IN (T.n * Pow10(TokenDecimals[a])) \div (T.d * parts * priceSeen[a])

\* C1: every line's native amount is at most the treasury balance the selection
\* read for that token, on every path including both fallback paths.
C1_NeverOverAllocates ==
    Done => \A k \in Lines : result.amounts[k] <= BalanceRead(result.tokens[k])

\* C2: with an empty treasury snapshot the selection fails with an error that
\* reaches the caller; it never returns a selection.
C2_EmptyTreasuryRaises ==
    (Done /\ Len(availableTokens) = 0) => result.kind = "thrown"

\* C3: every token of a returned selection is a watch-list token whose balance
\* was greater than 0 when the selection read it.
C3_OnlyTreasuryHoldings ==
    (Done /\ result.kind = "returned") =>
        \A k \in Lines : /\ result.tokens[k] \in Addresses
                         /\ BalanceRead(result.tokens[k]) > 0

\* C4 (as stated): a token whose price is 0 never receives a positive amount,
\* in the sponsor pass, the other pass or the fallback.
C4_UnpricedNeverAllocated ==
    Done => \A k \in Lines : LookedUpUnpriced(result.tokens[k]) => result.amounts[k] = 0

\* C4 (amended): the sponsor pass and the other pass never give a line to a
\* token whose price lookup returned 0; every line they push is for a token
\* whose lookup returned a price > 0.
C4_PassesSkipUnpriced ==
    path = "normal" =>
        /\ Len(selectedTokens) = Len(selectedAmounts)
        /\ \A k \in 1..Len(selectedTokens) : LookedUpPriced(selectedTokens[k])

\* C4 witness: a selection returned by the passes in which a sponsored token
\* and a drawn non-sponsor token were both skipped as unpriced.
C4_Witness ==
    /\ Done /\ path = "normal" /\ Len(result.tokens) >= 2
    /\ \E a \in sponsorTokens : LookedUpUnpriced(a)
    /\ \E k \in 1..Len(selectedOther) : LookedUpUnpriced(selectedOther[k].address)

\* C5: a request with target > 0 over a non-empty snapshot in which no lookup
\* returned price 0 yields at least one line.
C5_AtLeastOneLine ==
    (/\ Done
     /\ estimatedValue > 0
     /\ Len(availableTokens) > 0
     /\ \A a \in DOMAIN priceSeen : priceSeen[a] > 0)
    => (result.kind = "returned" /\ Len(result.tokens) >= 1
        /\ Len(result.amounts) = Len(result.tokens))

\* C5 witness: such a request, answered with lines for a sponsored and for a
\* non-sponsored token.
C5_Witness ==
    /\ Done /\ estimatedValue > 0 /\ Len(availableTokens) > 0
    /\ \A a \in DOMAIN priceSeen : priceSeen[a] > 0
    /\ SponsorLines # {} /\ OtherLines # {}

\* C6: with no sponsor token in the treasury the whole target value goes to the
\* selected non-sponsor tokens; in scenario A (only USDC, 6 decimals, $1.00, no
\* sponsors, target $100, balance above the need) the result is one USDC line
\* of 100_000000.
C6_NoSponsorsAllToOthers ==
    /\ (/\ Done /\ path = "normal"
        /\ Len(sponsorTokensInTreasury(availableTokens, sponsorTokens)) = 0)
       => \A k \in Lines :
            result.amounts[k] =
                Min(ShareAmount(k, Len(selectedOther)), BalanceRead(result.tokens[k]))
    /\ (/\ Done
        /\ estimatedValue = 100 * USDC_SCALE
        /\ sponsorTokens = {}
        /\ availableTokens = <<[address |-> "USDC", balance |-> MaxBalance,
                                decimals |-> 6]>>
        /\ LookedUpPriced("USDC") /\ priceSeen["USDC"] = 1)
       => (result.tokens = <<"USDC">> /\ result.amounts = <<100000000>>)

\* USD value of line k, times 10^6.
LineValue(k) ==
    LET a == result.tokens[k]
    IN result.amounts[k] * priceSeen[a] * Pow10(6 - TokenDecimals[a])

\* USD value of one native unit of line k's token, times 10^6: what a floor
\* can lose on that line.
LineUnit(k) ==
    LET a == result.tokens[k]
    IN priceSeen[a] * Pow10(6 - TokenDecimals[a])

RECURSIVE SumOver(_, _)
SumOver(F(_), S) ==
    IF S = {} THEN 0
    ELSE LET k == CHOOSE x \in S : TRUE IN F(k) + SumOver(F, S \ {k})

\* The lines of K together carry half of the target value, up to the native
\* unit each floor may drop.
CarryHalf(K) ==
    /\ SPLIT_DEN * SumOver(LineValue, K) <= estimatedValue
    /\ SPLIT_DEN * (SumOver(LineValue, K) + SumOver(LineUnit, K)) > estimatedValue

\* C7: with a priced sponsor token and a priced non-sponsor token in the
\* treasury and balances that need no clamping, the sponsor lines carry 50% of
\* the target value and the non-sponsor lines the other 50%.
C7_FiftyFifty ==
    (/\ Done /\ path = "normal"
     /\ SponsorLines # {} /\ OtherLines # {}
     /\ \A k \in 1..Len(availableTokens) : availableTokens[k].balance = MaxBalance)
    => (CarryHalf(SponsorLines) /\ CarryHalf(OtherLines))

\* C8: the sponsor budget is divided equally among the sponsored treasury
\* tokens with price > 0: with k such tokens each line is for sponsorBudget / k.
C8_SponsorBudgetAmongPriced ==
    (Done /\ path = "normal") =>
        \A k \in SponsorLines :
            result.amounts[k] =
                Min(ShareAmount(k, SPLIT_DEN * Cardinality(SponsorLines)),
                    BalanceRead(result.tokens[k]))

\* C9: the other pass draws only non-sponsor tokens with price > 0, at most 3
\* of them, yields a line for every drawn token and gives each the other budget
\* divided by the number of drawn tokens.
C9_OtherPassDrawsPriced ==
    (Done /\ result.kind = "returned" /\ path # "catch") =>
        /\ Len(selectedOther) <= MAX_OTHER_TOKENS
        /\ \A k \in 1..Len(selectedOther) :
              /\ selectedOther[k].address \notin sponsorTokens
              /\ LookedUpPriced(selectedOther[k].address)
              /\ \E l \in Lines : result.tokens[l] = selectedOther[k].address
        /\ path = "normal" =>
              \A l \in OtherLines :
                  result.amounts[l] =
                      Min(ShareAmount(l, SPLIT_DEN * Len(selectedOther)),
                          BalanceRead(result.tokens[l]))

\* The number of equal parts of the target the pass of line k's token cuts.
PassParts(a) ==
    IF a \in sponsorTokens
    THEN SPLIT_DEN * Len(sponsorTokensInTreasury(availableTokens, sponsorTokens))
    ELSE SPLIT_DEN * Len(selectedOther)

\* floor(value / price * 10^decimals) for the token at address a, value being
\* the per-token value of a's pass.
Computed(a) ==
    LET T == Rat(estimatedValue, USDC_SCALE)
    IN (T.n * Pow10(TokenDecimals[a])) \div (T.d * PassParts(a) * priceSeen[a])

HighestBalanceRecord ==
    LET top == CHOOSE k \in 1..Len(availableTokens) :
                 /\ \A l \in 1..Len(availableTokens) :
                        availableTokens[l].balance <= availableTokens[k].balance
                 /\ \A l \in 1..(k - 1) :
                        availableTokens[l].balance < availableTokens[k].balance
    IN availableTokens[top]

\* C11 (as stated): when both passes produce no line and the snapshot is not
\* empty, the selection is one line for the record with the highest treasury
\* balance, of min(target-equivalent amount, its balance).
C11_FallbackHighestBalance ==
    (Done /\ path = "fallback") =>
        /\ Len(result.tokens) = 1 /\ Len(result.amounts) = 1
        /\ result.tokens[1] = HighestBalanceRecord.address
        /\ result.amounts[1] = Min(estimatedValue, HighestBalanceRecord.balance)

\* C11 (amended): when both passes produce no line and the snapshot is not
\* empty, the selection is exactly one line, for the first available token in
\* watch-list order, of min(estimatedValue, that token's balance).
C11_FallbackFirstAvailable ==
    (Done /\ path # "catch" /\ \A a \in DOMAIN priceSeen : priceSeen[a] = 0) =>
        /\ path = "fallback"
        /\ result.tokens = <<availableTokens[1].address>>
        /\ result.amounts = <<Min(estimatedValue, availableTokens[1].balance)>>
        /\ \A k \in 2..Len(availableTokens) :
              \E m, n \in 1..Len(tokensToCheck) :
                  /\ m < n
                  /\ tokensToCheck[m] = availableTokens[1].address
                  /\ tokensToCheck[n] = availableTokens[k].address

\* C11 witness: a fallback selection whose token is not the one with the
\* highest balance, and whose amount is the whole (smaller) balance.
C11_Witness ==
    /\ Done /\ path = "fallback"
    /\ HighestBalanceRecord.address # result.tokens[1]
    /\ result.amounts[1] = availableTokens[1].balance
    /\ result.amounts[1] < estimatedValue


\* The lines a pass yields for the records of `records`, each priced token
\* getting min(floor(target / parts / price * 10^decimals), balance).
RECURSIVE PassLines(_, _, _)
PassLines(records, k, parts) ==
    IF k > Len(records) THEN <<>>
    ELSE LET r == records[k]
             T == Rat(estimatedValue, USDC_SCALE)
             rest == PassLines(records, k + 1, parts)
         IN IF priceSeen[r.address] = 0 THEN rest
            ELSE <<[address |-> r.address,
                    amount |-> Min((T.n * Pow10(r.decimals))
                                       \div (T.d * parts * priceSeen[r.address]),
                                   r.balance)]>> \o rest

\* The selection as a function of the treasury read, the sponsor set, the
\* target, the outcome of the draw and the prices looked up.
SelectionFor(sponsors) ==
    IF Len(availableTokens) = 0
    THEN <<[address |-> USDC_ADDRESS, amount |-> estimatedValue]>>
    ELSE LET sponsored == SelectSeq(availableTokens, LAMBDA t : t.address \in sponsors)
             lines == PassLines(sponsored, 1, SPLIT_DEN * Len(sponsored))
                      \o PassLines(selectedOther, 1, SPLIT_DEN * Len(selectedOther))
         IN IF Len(lines) > 0 THEN lines
            ELSE <<[address |-> availableTokens[1].address,
                    amount |-> Min(estimatedValue, availableTokens[1].balance)]>>

ResultIs(lines) ==
    /\ result.kind = "returned"
    /\ result.tokens = [k \in 1..Len(lines) |-> lines[k].address]
    /\ result.amounts = [k \in 1..Len(lines) |-> lines[k].amount]

\* C12: when fetching the sponsor set fails the selection treats the set as
\* empty: it completes with exactly the result an empty sponsor set produces
\* and the failure is not propagated.
C12_SponsorFetchFailureIsEmptySet ==
    sponsorFetch = "failed" =>
        /\ sponsorTokens = {}
        /\ path # "catch"
        /\ Done => /\ Len(selectedOther) = Min(MAX_OTHER_TOKENS, Len(availableTokens))
                   /\ ResultIs(SelectionFor({}))

\* C12 witness: a selection returned after a failed sponsor fetch, with two
\* lines or more.
C12_Witness ==
    Done /\ sponsorFetch = "failed" /\ Len(result.tokens) >= 2

\* C13: the snapshot is partitioned case-insensitively: a treasury token whose
\* address differs from a sponsor address only in letter case is classified as
\* sponsored, never as non-sponsored.
C13_CaseInsensitivePartition ==
    sponsorFetch = "ok" =>
        \A k \in 1..Len(availableTokens) :
            LET t == availableTokens[k] IN
            (\E a \in sponsorTokens : toLowerCase(a) = toLowerCase(t.address)) =>
                LET sp == sponsorTokensInTreasury(availableTokens, sponsorTokens)
                    ns == nonSponsorTokens(availableTokens, sponsorTokens)
                IN /\ \E m \in 1..Len(sp) : sp[m] = t
                   /\ \A m \in 1..Len(ns) : ns[m] # t

\* C14: the selection is deterministic modulo the draw: the returned token
\* list and amount list are a function of the treasury balances read, the
\* prices looked up, the sponsor set, the target and the outcome of the shuffle
\* (two runs that agree on these return the same lists).
C14_DeterministicModuloDraw ==
    Done => ResultIs(SelectionFor(sponsorTokens))

\* C14 witness: a returned selection with a sponsor line and two non-sponsor
\* lines, drawn in an order that is not the watch-list order.
C14_Witness ==
    /\ Done /\ path = "normal"
    /\ SponsorLines # {} /\ Cardinality(OtherLines) >= 2
    /\ Len(selectedOther) >= 2
    /\ \E m, n \in 1..Len(tokensToCheck) :
          /\ m < n
          /\ selectedOther[1].address = tokensToCheck[n]
          /\ selectedOther[2].address = tokensToCheck[m]

\* C31: a selection has no suspension point and takes its prices from the
\* published snapshot: the step that starts it is the step that returns its
\* result, and every price it uses is the price of that token's record in the
\* snapshot.
C31_SelectionIsOneSynchronousStep ==
    [][/\ (pc = "idle" /\ pc' # "idle") => pc' = "done"
       /\ \A a \in DOMAIN priceSeen' :
             \E t \in getCachedToken(snapshot', a) : t.price.price = priceSeen'[a]
      ]_vars

\* The addresses of a list of token records.
AddressesOf(list) == {list[k].address : k \in 1..Len(list)}

\* C38: in every selection returned the token list and the amount list have
\* the same length, no token appears twice (in whatever letter case), and the
\* tokens of the sponsor pass and those drawn for the non-sponsor pass are
\* disjoint, every line being for a token of one of the two.
C38_ListsAlignedAndDistinct ==
    Done =>
       LET sp == AddressesOf(sponsorTokensInTreasury(availableTokens, sponsorTokens))
           ot == AddressesOf(selectedOther)
       IN /\ Len(result.tokens) = Len(result.amounts)
          /\ \A k, m \in Lines :
                k # m => toLowerCase(result.tokens[k]) # toLowerCase(result.tokens[m])
          /\ sp \cap ot = {}
          /\ path = "normal" => \A k \in Lines : result.tokens[k] \in sp \cup ot

\* C38 witness: a selection returned with two sponsor lines and two
\* non-sponsor lines.
C38_Witness ==
    /\ Done /\ path = "normal"
    /\ Cardinality(SponsorLines) = 2 /\ Cardinality(OtherLines) = 2
    /\ Len(result.amounts) = 4

(* ==================== properties of the price oracle =================== *)

\* The cache entry of key is live at the current time.
Live(key) ==
    key \in DOMAIN priceCache /\ now - priceCache[key].timestamp < CACHE_TTL

\* The cache holds an entry for key whose age has reached the TTL.
Expired(key) ==
    key \in DOMAIN priceCache /\ now - priceCache[key].timestamp >= CACHE_TTL

\* In this step caller p enters getTokenPrice or getTokenPrices.
StartsLookup(p) ==
    lookup[p].pc \in {"idle", "returned"} /\ lookup'[p] # lookup[p]

\* The keys whose result in L is marked as cached.
CachedKeys(L) == {key \in DOMAIN L.results : L.results[key].cached}

\* The keys carried by the CoinGecko calls and by the Moralis calls of L.
PrimaryKeys(L) == UNION {Keys(L.cgCalls[n]) : n \in 1..Len(L.cgCalls)}

FallbackKeys(L) == Keys(L.moralisCalls)

\* The number of Moralis calls of L for key.
FallbackCount(L, key) ==
    Cardinality({n \in 1..Len(L.moralisCalls) : toLowerCase(L.moralisCalls[n]) = key})

Returned(p) == lookup[p].pc = "returned"

\* C15: a lookup (getTokenPrice or getTokenPrices) of an identifier whose cache
\* entry has now - timestamp < CACHE_TTL gets the entry's price, marked cached,
\* with the entry's source; that result stays until the lookup returns, and
\* the lookup sends the identifier neither to CoinGecko nor to Moralis.
C15_LiveEntryServedFromCache ==
    [][\A p \in Callers :
         /\ StartsLookup(p) =>
              \A key \in Keys(lookup'[p].tokenAddresses) :
                 Live(key) =>
                    /\ key \in DOMAIN lookup'[p].results
                    /\ lookup'[p].results[key] =
                          [price |-> priceCache[key].price, cached |-> TRUE,
                           source |-> priceCache[key].source]
         /\ ~StartsLookup(p) =>
              \A key \in CachedKeys(lookup[p]) :
                 /\ key \in DOMAIN lookup'[p].results
                 /\ lookup'[p].results[key] = lookup[p].results[key]
         /\ \A key \in CachedKeys(lookup'[p]) :
                 key \notin PrimaryKeys(lookup'[p]) \cup FallbackKeys(lookup'[p])
      ]_vars

\* C15 witness: a batch lookup has returned one identifier from the cache and
\* made its CoinGecko call for the other one only.
C15_Witness ==
    \E p \in Callers :
       /\ Returned(p)
       /\ CachedKeys(lookup[p]) # {}
       /\ Len(lookup[p].cgCalls) = 1
       /\ lookup[p].results[toLowerCase("WETH")].source = "moralis"

\* C16: a result is marked cached only when, at the cache check, its entry had
\* now - timestamp < CACHE_TTL; an identifier whose entry has reached the TTL
\* goes to uncachedAddresses and the lookup goes on to the CoinGecko call that
\* carries it, exactly as for an identifier with no entry.
C16_ExpiredEntryNeverServed ==
    [][\A p \in Callers :
         /\ StartsLookup(p) =>
              /\ \A key \in CachedKeys(lookup'[p]) : Live(key)
              /\ \A n \in 1..Len(lookup'[p].tokenAddresses) :
                    LET address == lookup'[p].tokenAddresses[n] IN
                    Expired(toLowerCase(address)) =>
                       /\ toLowerCase(address) \notin DOMAIN lookup'[p].results
                       /\ \E m \in 1..Len(lookup'[p].uncachedAddresses) :
                             lookup'[p].uncachedAddresses[m] = address
                       /\ lookup'[p].pc \in {"cg_sleep", "cg_fetch"}
         /\ ~StartsLookup(p) => CachedKeys(lookup'[p]) = CachedKeys(lookup[p])
         /\ (lookup[p].pc = "cg_sleep" /\ lookup'[p] # lookup[p]) =>
               lookup'[p].pc = "cg_fetch"
         /\ lookup'[p].pc = "cg_fetch" =>
               /\ lookup'[p].cgCalls = <<cgRequest(lookup'[p])>>
               /\ Keys(lookup'[p].uncachedAddresses) \subseteq PrimaryKeys(lookup'[p])
      ]_vars

\* C16 witness: a lookup has sent CoinGecko an identifier whose entry had
\* reached the TTL when the lookup checked the cache.
C16_Witness ==
    \E p \in Callers :
       /\ lookup[p].pc = "cg_fetch"
       /\ \E key \in PrimaryKeys(lookup[p]) :
             /\ key \in DOMAIN priceCache
             /\ lookup[p].checkedAt - priceCache[key].timestamp >= CACHE_TTL

\* C17: once the entry of an identifier, written at T, has expired, the
\* lookups that arrive before it is live again make one CoinGecko call for it
\* between them: no two lookups that arrived at or after T + CACHE_TTL have
\* each a CoinGecko call under way that carries the identifier.
C17_OneRefetchAfterExpiry ==
    \A key \in DOMAIN priceCache :
       Expired(key) =>
          Cardinality({p \in Callers :
                          /\ lookup[p].pc = "cg_fetch"
                          /\ key \in Keys(cgRequest(lookup[p]))
                          /\ lookup[p].checkedAt - priceCache[key].timestamp >= CACHE_TTL})
             <= 1

\* C18: one getTokenPrices call makes at most one CoinGecko call: none when
\* every requested identifier was a cache hit, otherwise one call whose
\* argument is the list of the requested addresses that were not cache hits.
C18_OneBatchedPrimaryCall ==
    \A p \in Callers :
       LET L == lookup[p]
           missing == SelectSeq(L.tokenAddresses,
                                LAMBDA a : toLowerCase(a) \notin CachedKeys(L))
       IN L.op = "getTokenPrices" =>
             /\ Len(L.cgCalls) <= 1
             /\ L.uncachedAddresses = missing
             /\ Len(missing) = 0 => L.cgCalls = <<>>
             /\ (Len(missing) > 0 /\ L.pc # "cg_sleep") => L.cgCalls = <<missing>>

\* C18 witness: a batch lookup has returned after one CoinGecko call that
\* carried two different identifiers.
C18_Witness ==
    \E p \in Callers :
       /\ Returned(p)
       /\ lookup[p].op = "getTokenPrices"
       /\ Len(lookup[p].cgCalls) = 1
       /\ Cardinality(Keys(lookup[p].cgCalls[1])) = 2

\* C19: Moralis is called only after the CoinGecko call, one identifier per
\* call; never for an identifier that was a cache hit or that CoinGecko
\* priced; and, when the lookup has returned, exactly once for each requested
\* identifier that was not a cache hit and that CoinGecko did not price.
C19_FallbackOncePerUnpriced ==
    \A p \in Callers :
       LET L == lookup[p] IN
       /\ Len(L.moralisCalls) > 0 => Len(L.cgCalls) = 1
       /\ \A key \in CachedKeys(L) \cup L.cgPriced : FallbackCount(L, key) = 0
       /\ Returned(p) =>
             \A key \in Keys(L.uncachedAddresses) \ L.cgPriced :
                FallbackCount(L, key) = 1

\* C20: when both sources gave no price for an identifier the lookup returns,
\* with price 0 and source "none" for it, a result for every requested
\* identifier, and for the others the price and source they obtained.
C20_BothFailIsPriceZeroSourceNone ==
    \A p \in Callers :
       LET L == lookup[p] IN
       Returned(p) =>
          /\ DOMAIN L.results = Keys(L.tokenAddresses)
          /\ \A key \in L.moralisFailed : L.results[key] = AllSourcesFailed
          /\ \A key \in L.cgPriced :
                /\ L.results[key].source = "coingecko"
                /\ L.results[key].price > 0
          /\ \A key \in FallbackKeys(L) \ L.moralisFailed :
                /\ L.results[key].source = "moralis"
                /\ L.results[key].price > 0

\* C20 witness: a batch lookup has returned price 0, source "none" for one
\* identifier and the CoinGecko price for the other.
C20_Witness ==
    \E p \in Callers :
       /\ Returned(p)
       /\ lookup[p].moralisFailed # {}
       /\ lookup[p].cgPriced # {}
       /\ \E key \in DOMAIN lookup[p].results : lookup[p].results[key].source = "none"

\* C22: every fetch that yields a price, from CoinGecko or from Moralis, writes
\* the cache entry of the lowercase identifier with that price, that source
\* and the time of the write as timestamp, and nothing else writes an entry;
\* a lookup that starts while the entry is within the TTL returns that price
\* and that source, marked cached.
C22_FetchWritesCacheEntry ==
    [][/\ \A p \in Callers : \A key \in DOMAIN lookup'[p].results :
            LET r == lookup'[p].results[key] IN
            (/\ ~r.cached
             /\ r.source # "none"
             /\ key \in DOMAIN lookup[p].results => lookup[p].results[key] # r)
               => /\ key = toLowerCase(key)
                  /\ key \in DOMAIN priceCache'
                  /\ priceCache'[key] =
                        [price |-> r.price, source |-> r.source, timestamp |-> now']
       /\ \A key \in DOMAIN priceCache' :
            (key \in DOMAIN priceCache => priceCache'[key] # priceCache[key])
               => /\ key \in Keys(<<"DEGEN", "WETH">>)
                  /\ priceCache'[key].timestamp = now'
                  /\ priceCache'[key].source \in {"coingecko", "moralis"}
                  /\ \E p \in Callers :
                        /\ key \in DOMAIN lookup'[p].results
                        /\ lookup'[p].results[key] =
                              Fetched(priceCache'[key].price, priceCache'[key].source)
       /\ \A p \in Callers : \A key \in DOMAIN priceCache :
            (/\ StartsLookup(p)
             /\ key \in Keys(lookup'[p].tokenAddresses)
             /\ now - priceCache[key].timestamp < CACHE_TTL)
               => /\ key \in DOMAIN lookup'[p].results
                  /\ lookup'[p].results[key].cached
                  /\ lookup'[p].results[key].price = priceCache[key].price
                  /\ lookup'[p].results[key].source = priceCache[key].source
      ]_vars

\* C22 witness: a lookup has returned, marked cached, the price that an
\* earlier Moralis answer wrote into the cache, while a CoinGecko answer fills
\* the other entry.
C22_Witness ==
    \E p \in Callers :
       /\ Returned(p)
       /\ toLowerCase("WETH") \in CachedKeys(lookup[p])
       /\ lookup[p].results[toLowerCase("WETH")].source = "moralis"
       /\ Live(toLowerCase("WETH"))
       /\ priceCache[toLowerCase("WETH")].price = lookup[p].results[toLowerCase("WETH")].price
       /\ toLowerCase("DEGEN") \in DOMAIN priceCache
       /\ priceCache[toLowerCase("DEGEN")].source = "coingecko"

\* In this step caller p issues a request to CoinGecko, or to Moralis.
IssuesCoinGecko(p) == lookup'[p].pc = "cg_fetch" /\ lookup[p].pc # "cg_fetch"

IssuesMoralis(p) ==
    /\ lookup'[p].pc = "moralis_fetch"
    /\ lookup[p].pc = "moralis_fetch" => lookup'[p].k # lookup[p].k

\* C24: a request is issued to CoinGecko only when at least
\* COINGECKO_RATE_LIMIT ms have passed since the previous request to
\* CoinGecko was issued, and to Moralis only when at least MORALIS_RATE_LIMIT
\* ms have passed since the previous request to Moralis, also when several
\* lookups are in flight.
C24_MinimumIntervalBetweenCalls ==
    [][\A p \in Callers :
         /\ IssuesCoinGecko(p) => now' - lastCoinGeckoCall >= COINGECKO_RATE_LIMIT
         /\ IssuesMoralis(p) => now' - lastMoralisCall >= MORALIS_RATE_LIMIT
      ]_vars

ReaderAddresses == {ZeroAddress, "DEGEN", "WETH"}

\* In this step flow f assigns a new object to priceCache.
Publishes(f) == refresh[f].pc = "eth_price" /\ refresh'[f].pc = "idle"

\* C26: what getCachedPrices and getCachedToken (and with it getCachedTokenPrice
\* and getCachedTokenBalance) return at any moment is one refresh's complete
\* result: all token records come from the refresh the object is from, the
\* ETH record and every token of that refresh are there, also while another
\* refresh is running or two refreshes overlap.
C26_ReaderSeesOneCycle ==
    LET S == getCachedPrices(snapshot) IN
    /\ \A n \in 1..Len(S.tokens) : S.tokens[n].cycle = S.cycle
    /\ S.tokenCount = Len(S.tokens)
    /\ \A a \in ReaderAddresses : \A t \in getCachedToken(snapshot, a) : t.cycle = S.cycle
    /\ S = EmptySnapshot \/ (S.cycle \in 1..started /\ Len(S.tokens) >= 1)

\* C26 witness: the second refresh has published ETH and two tokens while the
\* first one, started earlier, is still waiting for its ETH price.
C26_Witness ==
    /\ snapshot.cycle = 2
    /\ Len(snapshot.tokens) = 3
    /\ \E f \in RefreshFlows : refresh[f].pc = "eth_price" /\ refresh[f].cycle = 1

\* C27: the published snapshot holds no token record with balance 0.
C27_NoZeroBalanceToken ==
    \A n \in 1..Len(snapshot.tokens) :
       snapshot.tokens[n].address # ZeroAddress => snapshot.tokens[n].balance > 0

\* C28: every object a refresh publishes has exactly one record with the zero
\* address, the first one, holding the treasury's ETH balance as read and the
\* ETH price as a number, 0 when the price request failed, whichever sponsor
\* tokens were read.
C28_NativeRecordInEverySnapshot ==
    [][\A f \in RefreshFlows :
         Publishes(f) =>
            /\ Len(snapshot'.tokens) = 1 + Len(refresh[f].tokensData)
            /\ snapshot'.tokens[1].address = ZeroAddress
            /\ snapshot'.tokens[1].balance = refresh[f].ethBalance
            /\ ~snapshot'.tokens[1].price.object
            /\ snapshot'.tokens[1].price.price \in Quotes
            /\ \A n \in 2..Len(snapshot'.tokens) :
                  snapshot'.tokens[n].address # ZeroAddress
      ]_vars

\* C28 witness: a published snapshot in which ETH has price 0 (its price
\* request failed) and the only other record is WETH (the read of DEGEN
\* failed).
C28_Witness ==
    /\ snapshot.cycle > 0
    /\ Len(snapshot.tokens) = 2
    /\ snapshot.tokens[1].address = ZeroAddress
    /\ snapshot.tokens[1].price.price = 0
    /\ snapshot.tokens[1].balance > 0
    /\ snapshot.tokens[2].address = toLowerCase("WETH")

\* C32: in a published snapshot the price of every token record is a number,
\* the USD price the lookup returned for the token or 0, and its value is
\* balanceFormatted times that price.
C32_RecordPriceIsLookupPrice ==
    \A n \in 1..Len(snapshot.tokens) :
       LET t == snapshot.tokens[n] IN
       /\ ~t.price.object
       /\ t.value = NumTimes(t.balanceFormatted, t.price.price)

\* C36: a refresh that ends on a failed read or on finding no active
\* sponsors returns to its caller with the published object, its lastUpdate
\* and nextUpdate included, exactly as it was (the second conjunct is for a
\* run that ends as the flow's run before it did).
C36_FailedRefreshKeepsSnapshot ==
    [][/\ \A f \in RefreshFlows :
            (refresh'[f] # refresh[f] /\ refresh'[f].outcome \in {"error", "noSponsors"})
               => /\ refresh'[f].pc = "idle"
                  /\ snapshot' = snapshot
                  /\ getCachedPrices(snapshot').lastUpdate = getCachedPrices(snapshot).lastUpdate
                  /\ getCachedPrices(snapshot').nextUpdate = getCachedPrices(snapshot).nextUpdate
       /\ refresh' = refresh => snapshot' = snapshot
      ]_vars

\* C36 witness: both flows have last ended without publishing, one on an
\* error and one on no sponsors, after an object was published at an earlier
\* time, which is still the published one.
C36_Witness ==
    /\ snapshot # EmptySnapshot
    /\ snapshot.lastUpdate < now
    /\ \E f, g \in RefreshFlows :
          refresh[f].outcome = "error" /\ refresh[g].outcome = "noSponsors"

(* ==================== properties of using the price oracle ============== *)

\* C21: when both price sources are unreachable on every call, a price lookup
\* raises an error: no lookup returns a result (and a selection that needs the
\* price fails instead of returning a result).
C21_TotalFailureRaises ==
    unreachable => \A p \in Callers : lookup[p].pc # "returned"

\* C23: clearPriceCache leaves no entry, so that getCacheStats right after it
\* reports total = valid = expired = 0 and the next lookup finds nothing in
\* the cache and goes to CoinGecko with every identifier; getCacheStats always
\* reports total = valid + expired, the number of entries as total, and leaves
\* the cache, the lookups and the times of the last source calls as they are.
C23_ClearEmptiesStatsCount ==
    [][/\ (priceCache # EmptyMap /\ priceCache' = EmptyMap) =>
             /\ cacheStatsAt(priceCache', now').total = 0
             /\ cacheStatsAt(priceCache', now').valid = 0
             /\ cacheStatsAt(priceCache', now').expired = 0
       /\ cacheStats' # cacheStats =>
             /\ cacheStats'.total = cacheStats'.valid + cacheStats'.expired
             /\ cacheStats'.total = Cardinality(DOMAIN priceCache)
             /\ cacheStats'.valid = Cardinality({key \in DOMAIN priceCache : Live(key)})
             /\ priceCache = EmptyMap => cacheStats'.total = 0
             /\ priceCache' = priceCache
             /\ lookup' = lookup
             /\ lastCoinGeckoCall' = lastCoinGeckoCall
             /\ lastMoralisCall' = lastMoralisCall
       /\ (priceCache = EmptyMap /\ StartsLookup(ScriptCaller)) =>
             /\ lookup'[ScriptCaller].results = EmptyMap
             /\ lookup'[ScriptCaller].uncachedAddresses = lookup'[ScriptCaller].tokenAddresses
             /\ lookup'[ScriptCaller].pc \in {"cg_sleep", "cg_fetch"}
      ]_vars

\* C23 witness: calculateWalletValue has priced WETH, which wrote its cache
\* entry; with no time passed the cache is empty again, getCacheStats has
\* reported zeros, and a new lookup of WETH waits for its CoinGecko call.
C23_Witness ==
    /\ wallet.pc = "done"
    /\ wallet.tokenValues[1].address = "WETH"
    /\ wallet.tokenValues[1].price > 0
    /\ advances = 0
    /\ priceCache = EmptyMap
    /\ cacheStats = [total |-> 0, valid |-> 0, expired |-> 0, ttl |-> CACHE_TTL \div 1000]
    /\ lookup[ScriptCaller].pc = "cg_sleep"
    /\ lookup[ScriptCaller].uncachedAddresses = <<"WETH">>

\* C25: a request to CoinGecko does not stay pending: also when CoinGecko never
\* answers, the request ends (as a failure, after a bounded time) and the
\* lookup moves on to Moralis or to its return.
C25_PendingPrimaryCallEnds ==
    (lookup[ScriptCaller].pc = "cg_fetch")
        ~> (lookup[ScriptCaller].pc \in {"moralis_sleep", "moralis_fetch", "returned"})

\* calculateWalletValue is running: from its call to the step that returns.
WalletValueStep == wallet.pc = "pricing" \/ wallet'.pc = "pricing"

\* C29: while calculateWalletValue runs, no price-cache entry is added, changed
\* or removed, the snapshot stays as it is, and no request is issued to
\* CoinGecko or to Moralis.
C29_WalletValueIsPure ==
    [][WalletValueStep =>
          /\ priceCache' = priceCache
          /\ snapshot' = snapshot
          /\ lookup'[ScriptCaller].cgCalls = <<>>
          /\ lookup'[ScriptCaller].moralisCalls = <<>>
      ]_vars

\* The value of line n as the realized-value formula gives it:
\* units / 10^decimals * price, 0 without a price.
RealizedLineValue(token, price) ==
    IF price > 0
    THEN Number(Rat(token.units * price, Pow10(token.decimals)))
    ELSE Number(Rat(0, 1))

RECURSIVE SumOfValues(_, _)
SumOfValues(values, n) ==
    IF n = 0 THEN Number(Rat(0, 1))
    ELSE NumPlus(SumOfValues(values, n - 1), values[n].value)

\* C30: what calculateWalletValue returns has one entry per input line, in
\* input order; the value of a line is units / 10^decimals * price, 0 when no
\* price is available; totalValue is the sum of the values: for the lines of
\* the oracle's script, of handleWalletReady and of selectTokensForTier.
C30_RealizedValueIsSumOfLines ==
    wallet.pc = "done" =>
       /\ Len(wallet.tokenValues) = Len(wallet.tokens)
       /\ \A n \in 1..Len(wallet.tokens) :
             /\ wallet.tokenValues[n].address = wallet.tokens[n].address
             /\ wallet.tokenValues[n].value =
                   RealizedLineValue(wallet.tokens[n], wallet.tokenValues[n].price)
       /\ wallet.totalValue = SumOfValues(wallet.tokenValues, Len(wallet.tokenValues))

(* ======================= properties of event handling ==================== *)

\* The requestIds that have a row in the wallets table.
StoredIds(rows) == {w.request_id : w \in rows}

\* C33: for every WalletReady event the steps run in the order generate,
\* select, fund, store; credentials are in the table only for a request whose
\* funding transaction was sent and confirmed as successful, and a handling
\* that failed has stored nothing.
C33_StoredOnlyAfterFunding ==
    \A e \in Events :
       /\ handler[e].pc = "done"
             => handler[e].steps = <<"generate", "select", "fund", "store">>
       /\ handler[e].pc \in {"store", "done"} => handler[e].transaction = "success"
       /\ e \in StoredIds(wallets) => handler[e].transaction = "success"
       /\ handler[e].pc = "failed" => e \notin StoredIds(wallets)

\* C39: a funding transaction is sent only in a call in which the treasury
\* reported the backend authorized; when it reported it unauthorized the
\* handling fails with no transaction sent and nothing is stored for the
\* request.
C39_FundsOnlyWhenAuthorized ==
    \A e \in Events :
       /\ handler[e].transaction # "none" => handler[e].isAuthorized = "authorized"
       /\ handler[e].isAuthorized = "unauthorized"
             => /\ handler[e].pc = "failed"
                /\ handler[e].transaction = "none"
                /\ handler[e].steps = <<"generate", "select", "fund">>
                /\ e \notin StoredIds(wallets)

\* One request was refused by the treasury and has failed while the other has
\* been funded and stored.
C39_Witness ==
    \E e, o \in Events :
       /\ handler[e].isAuthorized = "unauthorized" /\ handler[e].pc = "failed"
       /\ handler[o].pc = "done" /\ o \in StoredIds(wallets)

\* C34 (each run): rows leave the table only in a cleanup run, and a run takes
\* exactly the rows created more than 5 minutes before it, or none when the
\* database refuses the delete.
C34_RunDeletesExactlyOldWallets ==
    [][LET deleted == StoredIds(wallets) \ StoredIds(wallets')
           old     == {w.request_id : w \in {r \in wallets : r.age > WALLET_TTL_MINUTES}}
       IN  /\ deleted # {} => cleanupDue /\ ~cleanupDue'
           /\ (cleanupDue /\ ~cleanupDue') => deleted \in {old, {}}
      ]_vars

\* C34 (eventually): while auto-cleanup is running, every stored wallet is
\* deleted in the end.
C34_StoredWalletIsDeleted ==
    \A e \in Events :
       (e \in StoredIds(wallets) /\ cleanupInterval)
          ~> (e \notin StoredIds(wallets) \/ ~cleanupInterval)

C37_StoppedMeansNoTimer ==
    timerCalls.stopped
       => /\ intervals = {}
          /\ updateTimer = 0
          /\ timerCalls.runsAfterStop = 0

====
